---- MODULE Spec2Model ----
(***************************************************************************)
(* The dgruft Vault: a SQLite metadata store (accounts, credentials,       *)
(* files_data) and a directory of encrypted blobs, mutated together by     *)
(* the operations of backend/vault.rs.                                     *)
(*                                                                         *)
(* Cryptography is symbolic.  A PBKDF2 hash is the term of its input and   *)
(* salt, an AES-256-GCM ciphertext is the term of its plaintext, key and   *)
(* nonce, and opening a ciphertext succeeds only with that key and that    *)
(* nonce.  Random keys, salts and nonces are fresh numbers.                *)
(*                                                                         *)
(* Every Vault operation is one action.  Its parameter `fault` chooses the *)
(* step, if any, at which the environment makes a database or filesystem   *)
(* call fail; the failures the code produces by itself (constraint         *)
(* violations, missing rows, missing files) are computed from the state.   *)
(* Tables are modelled as sets of rows addressed by the column names the   *)
(* SQL statements use.                                                     *)
(***************************************************************************)
EXTENDS Integers, FiniteSets, Sequences, TLC

VARIABLES database, fs, rng, nextKey, calls, session, last, edit, disk

vars == <<database, fs, rng, nextKey, calls, session, last, edit, disk>>

(***************************************************************************)
(* Bounds and input sets.                                                  *)
(***************************************************************************)
\* The number of Vault calls made in one run.
MaxCalls == 2

Users == {"u1", "u2"}
Passwords == {"p1", "p2"}
Names == {"n1", "n2"}
\* The plaintext a create call stores and the plaintext an update call stores.
CreatedTexts == {"t1"}
UpdatedTexts == {"t2"}
\* "../u2/f1" is a relative name that leaves the owner's directory.
Filenames == {"f1", "../u2/f1"}

\* The step the environment makes fail: a metadata statement, the filesystem
\* call before its first effect, the filesystem call after it, or the commit
\* (the commit returns an error, or the process dies before it: either way
\* the open transaction is discarded and the filesystem keeps its change).
Faults == {"none", "db", "fs", "fs_partial", "commit"}

(***************************************************************************)
(* Symbolic byte strings.                                                  *)
(***************************************************************************)
\* The bytes of a password.
Bytes(p) == [lvl |-> 0, pw |-> p, s1 |-> 0, s2 |-> 0]

\* A key drawn from the CSPRNG.
new_rand_key(i) == [lvl |-> 9, pw |-> "", s1 |-> i, s2 |-> 0]

\* A key no account was ever given.
BadKey == new_rand_key(0)

\* PBKDF2-HMAC-SHA256 of `input` under `salt`: deterministic and injective.
hash_with_salt(input, salt) ==
    IF input.lvl = 0
    THEN [input EXCEPT !.lvl = 1, !.s1 = salt]
    ELSE [input EXCEPT !.lvl = 2, !.s2 = salt]

\* AES-256-GCM seal.
try_encrypt_bytes_key_nonce(pt, key, nonce) ==
    [cipherbytes |-> [pt |-> pt, k |-> key, n |-> nonce, full |-> TRUE],
     nonce |-> nonce]

try_decrypt_bytes_NoKeyCheck(enc, key) ==
    IF enc.cipherbytes.full /\ enc.cipherbytes.n = enc.nonce
    THEN [ok |-> TRUE, pt |-> enc.cipherbytes.pt]
    ELSE [ok |-> FALSE, pt |-> enc.cipherbytes.pt]

\* AES-256-GCM open: the tag verifies only for the sealing key and nonce and
\* only on the complete cipherbytes.
try_decrypt_bytes(enc, key) ==
    IF enc.cipherbytes.full /\ enc.cipherbytes.k = key
       /\ enc.cipherbytes.n = enc.nonce
    THEN [ok |-> TRUE, pt |-> enc.cipherbytes.pt]
    ELSE [ok |-> FALSE, pt |-> enc.cipherbytes.pt]

Encrypted_from_fields(cipherbytes, nonce) ==
    [cipherbytes |-> cipherbytes, nonce |-> nonce]

(***************************************************************************)
(* Entities.                                                               *)
(***************************************************************************)
Account_new_StoresOnceHashed(username, password, key, salt1, nonce, salt2) ==
    LET hashed_password == hash_with_salt(Bytes(password), salt1)
    IN  [username |-> username,
         password_salt |-> salt1,
         dbl_hashed_password_hash |-> hashed_password,
         dbl_hashed_password_salt |-> salt2,
         encrypted_key_cipherbytes |->
             try_encrypt_bytes_key_nonce(key, hashed_password, nonce).cipherbytes,
         encrypted_key_nonce |-> nonce]

\* Account::new, as the six columns IntoDatabase stores; key, salt1, nonce
\* and salt2 are the random draws.
Account_new(username, password, key, salt1, nonce, salt2) ==
    LET hashed_password == hash_with_salt(Bytes(password), salt1)
        encrypted_key == try_encrypt_bytes_key_nonce(key, hashed_password, nonce)
        dbl_hashed_password == hash_with_salt(hashed_password, salt2)
    IN  [username |-> username,
         password_salt |-> salt1,
         dbl_hashed_password_hash |-> dbl_hashed_password,
         dbl_hashed_password_salt |-> salt2,
         encrypted_key_cipherbytes |-> encrypted_key.cipherbytes,
         encrypted_key_nonce |-> encrypted_key.nonce]

\* encrypted_from_db: the sealed key of an accounts row.
encrypted_key(account) ==
    Encrypted_from_fields(account.encrypted_key_cipherbytes,
                          account.encrypted_key_nonce)

\* Account::unlock.
unlock(account, password) ==
    LET hashed_password == hash_with_salt(Bytes(password), account.password_salt)
        dbl_hashed_password ==
            hash_with_salt(hashed_password, account.dbl_hashed_password_salt)
        opened == try_decrypt_bytes(encrypted_key(account), hashed_password)
    IN  IF dbl_hashed_password # account.dbl_hashed_password_hash
        THEN [ok |-> FALSE, err |-> "IncorrectPassword", key |-> BadKey]
        ELSE IF ~opened.ok
        THEN [ok |-> FALSE, err |-> "Decryption", key |-> BadKey]
        ELSE [ok |-> TRUE, err |-> "", key |-> opened.pt]

(***************************************************************************)
(* Metadata store.  database = [accounts, credentials, files_data], each a *)
(* set of rows.  A write returns [ok, db]: whether the statement           *)
(* succeeded, and the tables as the open transaction then sees them.       *)
(***************************************************************************)
EmptyDatabase == [accounts |-> {}, credentials |-> {}, files_data |-> {}]

\* A nonce column holding text that does not decode to 12 bytes.
NotANonce == -1

\* What a cipherbytes column holds after a 12-byte nonce was written to it.
NonceAsCipherbytes(n) == [pt |-> "", k |-> BadKey, n |-> n, full |-> FALSE]

select_entry_account(db, username) ==
    {a \in db.accounts : a.username = username}

\* An insert that replaces the row of the same username.
connection_insert_account_Replaces(db, account) ==
    [ok |-> TRUE, db |-> [db EXCEPT !.accounts = (@ \ select_entry_account(db, account.username)) \cup {account}]]

\* INSERT_ACCOUNT: username is the primary key.
connection_insert_account(db, account) ==
    IF select_entry_account(db, account.username) # {}
    THEN [ok |-> FALSE, db |-> db]
    ELSE [ok |-> TRUE, db |-> [db EXCEPT !.accounts = @ \cup {account}]]

connection_insert_credential_NoForeignKey(db, credential) ==
    IF \E c \in db.credentials :
            /\ c.owner_username = credential.owner_username
            /\ c.name_cipherbytes = credential.name_cipherbytes
    THEN [ok |-> FALSE, db |-> db]
    ELSE [ok |-> TRUE, db |-> [db EXCEPT !.credentials = @ \cup {credential}]]

\* INSERT_CREDENTIAL: primary key (owner_username,
\* encrypted_name_cipherbytes), foreign key owner_username.
connection_insert_credential(db, credential) ==
    IF \/ \E c \in db.credentials :
            /\ c.owner_username = credential.owner_username
            /\ c.name_cipherbytes = credential.name_cipherbytes
       \/ select_entry_account(db, credential.owner_username) = {}
    THEN [ok |-> FALSE, db |-> db]
    ELSE [ok |-> TRUE, db |-> [db EXCEPT !.credentials = @ \cup {credential}]]

\* INSERT_FILE_DATA: primary key path, foreign key owner_username.
connection_insert_file_data(db, file_data) ==
    IF \/ \E f \in db.files_data : f.path = file_data.path
       \/ select_entry_account(db, file_data.owner_username) = {}
    THEN [ok |-> FALSE, db |-> db]
    ELSE [ok |-> TRUE, db |-> [db EXCEPT !.files_data = @ \cup {file_data}]]

\* DELETE_ACCOUNT, with ON DELETE CASCADE of credentials and files_data;
\* zero matching rows is an error.
connection_delete_account(db, username) ==
    IF select_entry_account(db, username) = {}
    THEN [ok |-> FALSE, db |-> db]
    ELSE [ok |-> TRUE,
          db |-> [accounts |-> {a \in db.accounts : a.username # username},
                  credentials |->
                      {c \in db.credentials : c.owner_username # username},
                  files_data |->
                      {f \in db.files_data : f.owner_username # username}]]

\* DELETE_CREDENTIAL by (owner_username, encrypted_name_cipherbytes).
connection_delete_credential(db, owner_username, name_cipherbytes) ==
    LET hit == {c \in db.credentials :
                    /\ c.owner_username = owner_username
                    /\ c.name_cipherbytes = name_cipherbytes}
    IN  IF hit = {}
        THEN [ok |-> FALSE, db |-> db]
        ELSE [ok |-> TRUE, db |-> [db EXCEPT !.credentials = @ \ hit]]

\* A delete that does not look at the number of rows it removed.
connection_delete_file_data_AcceptsNoRows(db, path) ==
    [ok |-> TRUE, db |-> [db EXCEPT !.files_data = {f \in @ : f.path # path}]]

\* DELETE_FILE_DATA by path.
connection_delete_file_data(db, path) ==
    LET hit == {f \in db.files_data : f.path = path}
    IN  IF hit = {}
        THEN [ok |-> FALSE, db |-> db]
        ELSE [ok |-> TRUE, db |-> [db EXCEPT !.files_data = @ \ hit]]

\* An update that reports one row for the encrypted_key_nonce column and
\* leaves the column as it was.
connection_update_account_KeepsNonce(db, username, column, value) ==
    IF select_entry_account(db, username) = {}
    THEN [ok |-> FALSE, db |-> db]
    ELSE [ok |-> TRUE,
          db |-> [db EXCEPT !.accounts =
                    {IF a.username = username /\ column # "encrypted_key_nonce"
                     THEN [a EXCEPT ![column] = value] ELSE a : a \in @}]]

\* UPDATE accounts SET <column> = value WHERE username = ...;
\* zero matching rows is an error.
connection_update_account(db, username, column, value) ==
    IF select_entry_account(db, username) = {}
    THEN [ok |-> FALSE, db |-> db]
    ELSE [ok |-> TRUE,
          db |-> [db EXCEPT !.accounts =
                    {IF a.username = username
                     THEN [a EXCEPT ![column] = value] ELSE a : a \in @}]]

\* UPDATE credentials SET <column> = value
\* WHERE owner_username = ... AND encrypted_name_cipherbytes = ...
connection_update_credential(db, owner_username, name_cipherbytes, column, value) ==
    IF ~ \E c \in db.credentials :
            /\ c.owner_username = owner_username
            /\ c.name_cipherbytes = name_cipherbytes
    THEN [ok |-> FALSE, db |-> db]
    ELSE [ok |-> TRUE,
          db |-> [db EXCEPT !.credentials =
                    {IF /\ c.owner_username = owner_username
                        /\ c.name_cipherbytes = name_cipherbytes
                     THEN [c EXCEPT ![column] = value] ELSE c : c \in @}]]

\* An update that reports one row when its path matches none.
connection_update_file_data_AcceptsNoRows(db, path, value) ==
    [ok |-> TRUE,
     db |-> [db EXCEPT !.files_data =
               {IF f.path = path
                THEN [f EXCEPT !.contents_nonce = value] ELSE f : f \in @}]]

\* An update of the nonce column that reports one row and changes none.
connection_update_file_data_KeepsNonce(db, path, value) ==
    IF ~ \E f \in db.files_data : f.path = path
    THEN [ok |-> FALSE, db |-> db]
    ELSE [ok |-> TRUE, db |-> db]

\* UPDATE_FILE_DATA_CONTENTS_NONCE by path.
connection_update_file_data(db, path, value) ==
    IF ~ \E f \in db.files_data : f.path = path
    THEN [ok |-> FALSE, db |-> db]
    ELSE [ok |-> TRUE,
          db |-> [db EXCEPT !.files_data =
                    {IF f.path = path
                     THEN [f EXCEPT !.contents_nonce = value] ELSE f : f \in @}]]

\* A drop that undoes the inserts and updates of the transaction and keeps
\* its deletes.
TxDrop_KeepsDeletes(before, inTx) ==
    [accounts |-> before.accounts \cap inTx.accounts,
     credentials |-> before.credentials \cap inTx.credentials,
     files_data |-> before.files_data \cap inTx.files_data]

TxDrop_KeepsChanges(before, inTx) == inTx

\* A Transaction dropped without commit (every `?` early return) rolls back.
TxDrop(before, inTx) == before

(***************************************************************************)
(* Filesystem store.  fs = [dirs, blobs]: the account directories present  *)
(* under the data directory, and the files in them as [dir, leaf, bytes].  *)
(***************************************************************************)
EmptyFilesystem == [dirs |-> {}, blobs |-> {}]

\* get_file_path: <data_dir>/<username>/<filename>, kept as the pair.
get_file_path(username, filename) == <<username, filename>>

\* The file a path names once the operating system has resolved "..".
Resolve(path) ==
    IF path[2] = "../u2/f1"
    THEN [dir |-> "u2", leaf |-> "f1"]
    ELSE [dir |-> path[1], leaf |-> path[2]]

BlobAt(files, path) ==
    {b \in files.blobs : b.dir = Resolve(path).dir /\ b.leaf = Resolve(path).leaf}

\* A file exists at the path: the lookup passes through the account's
\* directory, so it finds nothing when that directory does not exist.
FileExistsAt(files, path) == path[1] \in files.dirs /\ BlobAt(files, path) # {}

\* metadata(path) succeeds on a directory that is not read-only.
verify_writeable_dir(files, username) == username \in files.dirs

\* create_dir fails if the directory exists.
new_account_file_dir(files, username) ==
    IF username \in files.dirs
    THEN [ok |-> FALSE, fs |-> files]
    ELSE [ok |-> TRUE, fs |-> [files EXCEPT !.dirs = @ \cup {username}]]

\* File::create_new: fails if the file exists or its directory does not.
create_new(files, path) ==
    IF BlobAt(files, path) # {} \/ Resolve(path).dir \notin files.dirs
    THEN [ok |-> FALSE, fs |-> files]
    ELSE [ok |-> TRUE, fs |-> files]

WithBlob(files, path, bytes) ==
    [files EXCEPT !.blobs = (@ \ BlobAt(files, path)) \cup
        {[dir |-> Resolve(path).dir, leaf |-> Resolve(path).leaf, bytes |-> bytes]}]

\* The leading part of `bytes` that reached the disk when write_all failed.
Partial(bytes) == [bytes EXCEPT !.full = FALSE]

\* A creation that opens the file with create rather than create_new.
new_file_Overwrites(files, path, bytes) ==
    IF Resolve(path).dir \in files.dirs
    THEN [ok |-> TRUE, fs |-> WithBlob(files, path, bytes)]
    ELSE [ok |-> FALSE, fs |-> files]

\* new_file: create_new, then write_all.
new_file(files, path, bytes) ==
    IF create_new(files, path).ok
    THEN [ok |-> TRUE, fs |-> WithBlob(files, path, bytes)]
    ELSE [ok |-> FALSE, fs |-> files]

\* write_file: open for a truncating write, then write_all.
write_file(files, path, bytes) ==
    IF Resolve(path).dir \in files.dirs
    THEN [ok |-> TRUE, fs |-> WithBlob(files, path, bytes)]
    ELSE [ok |-> FALSE, fs |-> files]

\* fs::remove_file.
remove_file(files, path) ==
    IF BlobAt(files, path) = {}
    THEN [ok |-> FALSE, fs |-> files]
    ELSE [ok |-> TRUE, fs |-> [files EXCEPT !.blobs = @ \ BlobAt(files, path)]]

\* fs::remove_dir_all on an account directory.
remove_dir_all(files, username) ==
    IF username \notin files.dirs
    THEN [ok |-> FALSE, fs |-> files]
    ELSE [ok |-> TRUE,
          fs |-> [dirs |-> files.dirs \ {username},
                  blobs |-> {b \in files.blobs : b.dir # username}]]

\* open_file and read_file_bytes.
read_file_bytes(files, path) == BlobAt(files, path)

\* An open with create(true): a missing file of an existing directory is
\* created empty.
open_file_Creates(files, path) ==
    IF BlobAt(files, path) # {} \/ Resolve(path).dir \notin files.dirs
    THEN [ok |-> BlobAt(files, path) # {}, fs |-> files]
    ELSE [ok |-> TRUE, fs |-> WithBlob(files, path, [pt |-> "", k |-> BadKey, n |-> 0, full |-> FALSE])]

\* open_file: OpenOptions read, write, create(false); nothing is created
\* or truncated.
open_file(files, path) ==
    [ok |-> BlobAt(files, path) # {}, fs |-> files]

(***************************************************************************)
(* The transaction skeleton every Vault mutation follows:                  *)
(*   open_transaction()?; metadata statements ?; filesystem step ?;        *)
(*   tx.commit()?                                                          *)
(* pre      the checks made before the transaction is opened               *)
(* dbres    [ok, db] of the metadata statements                            *)
(* dbtorn   the tables inside the transaction when a statement is made to  *)
(*          fail by the environment                                        *)
(* fsres    [ok, fs] of the filesystem step                                *)
(* torn     the filesystem if that step fails after its first effect       *)
(* The result is [res, at, db, fs, steps]: Ok or Err, the step that        *)
(* returned, both stores after the call, and the steps in the order they   *)
(* ran.                                                                    *)
(***************************************************************************)
\* A filesystem step that does nothing (operations on the database alone).
NoFsStep == [ok |-> TRUE, fs |-> fs]

\* The steps of a mutation that ran before its filesystem step returned.
StepsToFs(fsres, ok) ==
    IF fsres = NoFsStep THEN <<"begin", "db">>
    ELSE <<"begin", "db", IF ok THEN "fs" ELSE "fs_failed">>

\* A skeleton that returns the error of the filesystem step with its
\* transaction still open.
Transact_LeavesOpen(pre, dbres, dbtorn, fsres, torn, fault) ==
    IF ~pre
    THEN [res |-> "Err", at |-> "pre", db |-> database, fs |-> fs,
          steps |-> <<>>]
    ELSE IF fault = "db"
    THEN [res |-> "Err", at |-> "db",
          db |-> TxDrop(database, dbtorn), fs |-> fs,
          steps |-> <<"begin", "db_failed", "rollback">>]
    ELSE IF ~dbres.ok
    THEN [res |-> "Err", at |-> "db",
          db |-> TxDrop(database, dbres.db), fs |-> fs,
          steps |-> <<"begin", "db_failed", "rollback">>]
    ELSE IF fault = "fs" \/ ~fsres.ok
    THEN [res |-> "Err", at |-> "fs",
          db |-> dbres.db, fs |-> fs,
          steps |-> <<"begin", "db", "fs_failed">>]
    ELSE IF fault = "fs_partial"
    THEN [res |-> "Err", at |-> "fs_partial",
          db |-> TxDrop(database, dbres.db), fs |-> torn,
          steps |-> <<"begin", "db", "fs_failed", "rollback">>]
    ELSE IF fault = "commit"
    THEN [res |-> "Err", at |-> "commit",
          db |-> TxDrop(database, dbres.db), fs |-> fsres.fs,
          steps |-> StepsToFs(fsres, TRUE) \o <<"commit_failed", "rollback">>]
    ELSE [res |-> "Ok", at |-> "none", db |-> dbres.db, fs |-> fsres.fs,
          steps |-> StepsToFs(fsres, TRUE) \o <<"commit">>]

\* A skeleton that commits before the filesystem step.
Transact_CommitsEarly(pre, dbres, dbtorn, fsres, torn, fault) ==
    IF ~pre
    THEN [res |-> "Err", at |-> "pre", db |-> database, fs |-> fs,
          steps |-> <<>>]
    ELSE IF fault = "db" \/ ~dbres.ok
    THEN [res |-> "Err", at |-> "db", db |-> database, fs |-> fs,
          steps |-> <<"begin", "db_failed", "rollback">>]
    ELSE IF fault = "commit"
    THEN [res |-> "Err", at |-> "commit", db |-> database, fs |-> fs,
          steps |-> <<"begin", "db", "commit_failed", "rollback">>]
    ELSE IF fault = "fs" \/ ~fsres.ok
    THEN [res |-> "Err", at |-> "fs", db |-> dbres.db, fs |-> fs,
          steps |-> <<"begin", "db", "commit", "fs_failed">>]
    ELSE IF fault = "fs_partial"
    THEN [res |-> "Err", at |-> "fs_partial", db |-> dbres.db, fs |-> torn,
          steps |-> <<"begin", "db", "commit", "fs_failed">>]
    ELSE [res |-> "Ok", at |-> "none", db |-> dbres.db, fs |-> fsres.fs,
          steps |-> <<"begin", "db", "commit", "fs">>]

Transact(pre, dbres, dbtorn, fsres, torn, fault) ==
    IF ~pre
    THEN [res |-> "Err", at |-> "pre", db |-> database, fs |-> fs,
          steps |-> <<>>]
    ELSE IF fault = "db"
    THEN [res |-> "Err", at |-> "db",
          db |-> TxDrop(database, dbtorn), fs |-> fs,
          steps |-> <<"begin", "db_failed", "rollback">>]
    ELSE IF ~dbres.ok
    THEN [res |-> "Err", at |-> "db",
          db |-> TxDrop(database, dbres.db), fs |-> fs,
          steps |-> <<"begin", "db_failed", "rollback">>]
    ELSE IF fault = "fs" \/ ~fsres.ok
    THEN [res |-> "Err", at |-> "fs",
          db |-> TxDrop(database, dbres.db), fs |-> fs,
          steps |-> <<"begin", "db", "fs_failed", "rollback">>]
    ELSE IF fault = "fs_partial"
    THEN [res |-> "Err", at |-> "fs_partial",
          db |-> TxDrop(database, dbres.db), fs |-> torn,
          steps |-> <<"begin", "db", "fs_failed", "rollback">>]
    ELSE IF fault = "commit"
    THEN [res |-> "Err", at |-> "commit",
          db |-> TxDrop(database, dbres.db), fs |-> fsres.fs,
          steps |-> StepsToFs(fsres, TRUE) \o <<"commit_failed", "rollback">>]
    ELSE [res |-> "Ok", at |-> "none", db |-> dbres.db, fs |-> fsres.fs,
          steps |-> StepsToFs(fsres, TRUE) \o <<"commit">>]

\* A load_account that does not look for the account's directory.
load_account_NoDirectoryCheck(db, files, username) ==
    IF select_entry_account(db, username) = {}
    THEN [ok |-> FALSE, err |-> "NotFound", rows |-> {}]
    ELSE [ok |-> TRUE, err |-> "", rows |-> select_entry_account(db, username)]

(***************************************************************************)
(* Vault: reads.                                                           *)
(***************************************************************************)
\* Vault::load_account.
load_account(db, files, username) ==
    IF ~verify_writeable_dir(files, username)
    THEN [ok |-> FALSE, err |-> "NoDirectory", rows |-> {}]
    ELSE IF select_entry_account(db, username) = {}
    THEN [ok |-> FALSE, err |-> "NotFound", rows |-> {}]
    ELSE [ok |-> TRUE, err |-> "", rows |-> select_entry_account(db, username)]

\* Vault::load_unlocked_account.
load_unlocked_account(db, files, username, password) ==
    LET loaded_account == load_account(db, files, username)
    IN  IF ~loaded_account.ok
        THEN [ok |-> FALSE, err |-> loaded_account.err, key |-> BadKey]
        ELSE unlock(CHOOSE a \in loaded_account.rows : TRUE, password)

\* TryFromDatabase for Credential: every nonce column must decode to 12 bytes.
try_from_database_credential(row) ==
    /\ row.name_nonce # NotANonce
    /\ row.username_nonce # NotANonce
    /\ row.password_nonce # NotANonce
    /\ row.notes_nonce # NotANonce

\* Database::select_owned_entries for Credential.
select_owned_credentials(db, owner_username) ==
    LET rows == {c \in db.credentials : c.owner_username = owner_username}
    IN  IF \E c \in rows : ~try_from_database_credential(c)
        THEN [ok |-> FALSE, rows |-> {}]
        ELSE [ok |-> TRUE, rows |-> rows]

\* Credential::name.
credential_name(c, key) ==
    try_decrypt_bytes(Encrypted_from_fields(c.name_cipherbytes, c.name_nonce), key)

\* Vault::load_credential.  SQLite returns the owned rows in no promised
\* order and the loop stops at the first row that matches or fails to
\* decrypt, so the result is the set of outcomes some order produces.
load_credential(db, owner_username, name, key) ==
    LET owned == select_owned_credentials(db, owner_username)
        stops == {c \in owned.rows :
                    \/ ~credential_name(c, key).ok
                    \/ credential_name(c, key).pt = name}
    IN  IF ~owned.ok
        THEN {[ok |-> FALSE, err |-> "Corrupt", rows |-> {}]}
        ELSE IF stops = {}
        THEN {[ok |-> FALSE, err |-> "NotFound", rows |-> {}]}
        ELSE {IF credential_name(c, key).ok
              THEN [ok |-> TRUE, err |-> "", rows |-> {c}]
              ELSE [ok |-> FALSE, err |-> "Decryption", rows |-> {}] : c \in stops}

\* Vault::load_file.
load_file(db, files, username, filename, key) ==
    LET file_path == get_file_path(username, filename)
        file_data == {f \in db.files_data : f.path = file_path}
        bytes == read_file_bytes(files, file_path)
    IN  IF ~verify_writeable_dir(files, username)
        THEN [ok |-> FALSE, err |-> "NoDirectory", pt |-> ""]
        ELSE IF file_data = {}
        THEN [ok |-> FALSE, err |-> "NotFound", pt |-> ""]
        ELSE IF bytes = {}
        THEN [ok |-> FALSE, err |-> "Io", pt |-> ""]
        ELSE LET encrypted_file ==
                    Encrypted_from_fields((CHOOSE b \in bytes : TRUE).bytes,
                        (CHOOSE f \in file_data : TRUE).contents_nonce)
                 opened == try_decrypt_bytes(encrypted_file, key)
             IN  IF opened.ok
                 THEN [ok |-> TRUE, err |-> "", pt |-> opened.pt]
                 ELSE [ok |-> FALSE, err |-> "Decryption", pt |-> ""]

(***************************************************************************)
(* Vault: mutations.  Each returns [res, at, db, fs] (see Transact).       *)
(***************************************************************************)
\* Vault::create_new_account; the account carries the fresh key and salts.
create_new_account(account, fault) ==
    Transact(TRUE,
             connection_insert_account(database, account),
             database,
             new_account_file_dir(fs, account.username),
             fs,
             fault)

\* Vault::delete_account; `torn` is the directory after a remove_dir_all
\* that failed part-way.
delete_account(username, torn, fault) ==
    Transact(verify_writeable_dir(fs, username),
             connection_delete_account(database, username),
             database,
             remove_dir_all(fs, username),
             torn,
             fault)

\* UnlockedAccount::change_password: a fresh once-hashed password, the same
\* key sealed under it, and a fresh double hash.
change_password(username, key, new_password, salt1, nonce, salt2) ==
    Account_new(username, new_password, key, salt1, nonce, salt2)

change_password_updates_SkipsHash(db, a, steps) ==
    LET u1 == connection_update_account(db, a.username,
                  "password_salt", a.password_salt)
        u3 == IF u1.ok
                THEN connection_update_account(u1.db, a.username,
                  "dbl_hashed_password_salt", a.dbl_hashed_password_salt)
                ELSE u1
        u4 == IF u3.ok
                THEN connection_update_account(u3.db, a.username,
                  "encrypted_key_cipherbytes", a.encrypted_key_cipherbytes)
                ELSE u3
        u5 == IF u4.ok
                THEN connection_update_account(u4.db, a.username,
                  "encrypted_key_nonce", a.encrypted_key_nonce)
                ELSE u4
    IN  CASE steps = 0 -> [ok |-> TRUE, db |-> db]
          [] steps = 1 -> u1
          [] OTHER -> u5

\* The five UPDATE statements of Vault::change_account_password, the first
\* `steps` of them.
change_password_updates(db, a, steps) ==
    LET u1 == connection_update_account(db, a.username,
                  "password_salt", a.password_salt)
        u2 == IF u1.ok
                THEN connection_update_account(u1.db, a.username,
                  "dbl_hashed_password_hash", a.dbl_hashed_password_hash)
                ELSE u1
        u3 == IF u2.ok
                THEN connection_update_account(u2.db, a.username,
                  "dbl_hashed_password_salt", a.dbl_hashed_password_salt)
                ELSE u2
        u4 == IF u3.ok
                THEN connection_update_account(u3.db, a.username,
                  "encrypted_key_cipherbytes", a.encrypted_key_cipherbytes)
                ELSE u3
        u5 == IF u4.ok
                THEN connection_update_account(u4.db, a.username,
                  "encrypted_key_nonce", a.encrypted_key_nonce)
                ELSE u4
    IN  CASE steps = 0 -> [ok |-> TRUE, db |-> db]
          [] steps = 1 -> u1
          [] steps = 2 -> u2
          [] steps = 3 -> u3
          [] steps = 4 -> u4
          [] OTHER -> u5

\* Vault::change_account_password; `done` is the number of statements that
\* ran before the environment failed one.
change_account_password(username, old_password, new_password, salt1, nonce, salt2, done, fault) ==
    LET unlocked_account ==
            load_unlocked_account(database, fs, username, old_password)
        changed == change_password(username, unlocked_account.key,
                                   new_password, salt1, nonce, salt2)
    IN  Transact(unlocked_account.ok,
                 change_password_updates(database, changed, 5),
                 change_password_updates(database, changed, done).db,
                 NoFsStep,
                 fs,
                 fault)

\* Credential::try_new: four seals under the same key, each with its nonce.
Credential_try_new(owner_username, key, name, username, password, notes, n) ==
    [owner_username |-> owner_username,
     name_cipherbytes |-> try_encrypt_bytes_key_nonce(name, key, n + 1).cipherbytes,
     name_nonce |-> n + 1,
     username_cipherbytes |->
         try_encrypt_bytes_key_nonce(username, key, n + 2).cipherbytes,
     username_nonce |-> n + 2,
     password_cipherbytes |->
         try_encrypt_bytes_key_nonce(password, key, n + 3).cipherbytes,
     password_nonce |-> n + 3,
     notes_cipherbytes |->
         try_encrypt_bytes_key_nonce(notes, key, n + 4).cipherbytes,
     notes_nonce |-> n + 4]

\* Vault::create_credential; `loaded` is what load_credential returned for
\* the new name.
create_credential(credential, loaded, fault) ==
    Transact(~loaded.ok,
             connection_insert_credential(database, credential),
             database,
             NoFsStep,
             fs,
             fault)

\* Vault::delete_credential; `loaded` is what load_credential returned.
delete_credential(owner_username, loaded, fault) ==
    Transact(loaded.ok,
             IF loaded.ok
             THEN connection_delete_credential(database, owner_username,
                      (CHOOSE c \in loaded.rows : TRUE).name_cipherbytes)
             ELSE [ok |-> FALSE, db |-> database],
             database,
             NoFsStep,
             fs,
             fault)

CredentialUpdateField ==
    {"username_cipherbytes", "username_nonce", "password_cipherbytes",
     "password_nonce", "notes_cipherbytes", "notes_nonce"}

IsNonceColumn(field) ==
    field \in {"username_nonce", "password_nonce", "notes_nonce"}

\* What the column `field` holds once the given base64 text is written to it.
CipherbytesInto(field, cipherbytes) ==
    IF IsNonceColumn(field) THEN NotANonce ELSE cipherbytes

NonceInto(field, nonce) ==
    IF IsNonceColumn(field) THEN nonce ELSE NonceAsCipherbytes(nonce)

\* Updates that stop after the cipherbytes column.
update_credential_updates_SkipsNonce(db, owner_username, name_cipherbytes, cipherbytes_field, nonce_field, enc, steps) ==
    IF steps = 0 THEN [ok |-> TRUE, db |-> db]
    ELSE connection_update_credential(db, owner_username, name_cipherbytes, cipherbytes_field, CipherbytesInto(cipherbytes_field, enc.cipherbytes))

\* The two UPDATE statements of Vault::update_credential, the first `steps`.
update_credential_updates(db, owner_username, name_cipherbytes, cipherbytes_field, nonce_field, enc, steps) ==
    LET u1 == connection_update_credential(db, owner_username, name_cipherbytes,
                  cipherbytes_field,
                  CipherbytesInto(cipherbytes_field, enc.cipherbytes))
        u2 == IF u1.ok
                THEN connection_update_credential(u1.db,
                  owner_username, name_cipherbytes, nonce_field,
                  NonceInto(nonce_field, enc.nonce))
                ELSE u1
    IN  CASE steps = 0 -> [ok |-> TRUE, db |-> db]
          [] steps = 1 -> u1
          [] OTHER -> u2

\* Vault::update_credential.
update_credential(owner_username, loaded, key, cipherbytes_field, nonce_field, new_value, nonce, done, fault) ==
    LET encrypted_new_value == try_encrypt_bytes_key_nonce(new_value, key, nonce)
        pk == (CHOOSE c \in loaded.rows : TRUE).name_cipherbytes
    IN  Transact(loaded.ok,
                 IF loaded.ok
                 THEN update_credential_updates(database, owner_username, pk,
                          cipherbytes_field, nonce_field, encrypted_new_value, 2)
                 ELSE [ok |-> FALSE, db |-> database],
                 IF loaded.ok
                 THEN update_credential_updates(database, owner_username, pk,
                          cipherbytes_field, nonce_field, encrypted_new_value,
                          done).db
                 ELSE database,
                 NoFsStep,
                 fs,
                 fault)

\* FileData::new.
FileData_new(path, filename, owner_username, contents_nonce) ==
    [path |-> path, filename |-> filename, owner_username |-> owner_username,
     contents_nonce |-> contents_nonce]

\* Vault::create_file.
create_file(filename, owner_username, contents, key, nonce, fault) ==
    LET file_path == get_file_path(owner_username, filename)
        encrypted_contents == try_encrypt_bytes_key_nonce(contents, key, nonce)
        file_data == FileData_new(file_path, filename, owner_username,
                                  encrypted_contents.nonce)
    IN  Transact(verify_writeable_dir(fs, owner_username),
                 connection_insert_file_data(database, file_data),
                 database,
                 new_file(fs, file_path, encrypted_contents.cipherbytes),
                 WithBlob(fs, file_path, Partial(encrypted_contents.cipherbytes)),
                 fault)

\* Vault::delete_file.
delete_file(username, filename, fault) ==
    LET file_path == get_file_path(username, filename)
    IN  Transact(verify_writeable_dir(fs, username),
                 connection_delete_file_data(database, file_path),
                 database,
                 remove_file(fs, file_path),
                 fs,
                 fault)

\* Vault::update_file.
update_file(username, filename, key, new_file_contents, nonce, fault) ==
    LET file_path == get_file_path(username, filename)
        encrypted_contents ==
            try_encrypt_bytes_key_nonce(new_file_contents, key, nonce)
    IN  Transact(verify_writeable_dir(fs, username),
                 connection_update_file_data(database, file_path,
                                             encrypted_contents.nonce),
                 database,
                 write_file(fs, file_path, encrypted_contents.cipherbytes),
                 WithBlob(fs, file_path, Partial(encrypted_contents.cipherbytes)),
                 fault)

(***************************************************************************)
(* The state machine.                                                      *)
(*   database, fs  the two stores of the Vault                             *)
(*   rng           the last number the CSPRNG handed out as salt or nonce  *)
(*   nextKey       the next key the CSPRNG will hand out                   *)
(*   calls         the number of Vault calls made so far                   *)
(*   session       per user, the password and key of the account as its    *)
(*                 owner knows them (not program state)                    *)
(*   last          the last call, its arguments and how it returned        *)
(*   edit          the temp file of an edit_bytes call and the position    *)
(*                 of the call in its code (edit.rs)                       *)
(*   disk          what the program finds when it starts: the data         *)
(*                 directory, the database file and the environment        *)
(***************************************************************************)
NoSession == [pw |-> "", key |-> BadKey]

\* env::var of a variable that is not set.
Unset == "<unset>"

\* The disk of a vault that is set up and connected: the data directory is
\* a writeable directory, the database file holds the three tables, and no
\* environment variable is set.
ConnectedDisk == [data_dir |-> "dir", db_file |-> "tables", DATA |-> Unset, CONFIG |-> Unset, project |-> "dirs"]

\* No edit_bytes call has started: there is no temp file.
NoEdit == [pc |-> "start", input |-> <<>>, exists |-> FALSE, bytes |-> <<>>, pos |-> 0, len |-> 0, passes |-> 0, buf |-> <<>>]

\* The keys a caller holds: the key of each account's owner, or a key of no
\* account.
CallerKeys == {session[u].key : u \in Users}

\* Every key the CSPRNG has handed out, and a key of no account.
AllKeys == {new_rand_key(i) : i \in 0..(nextKey - 1)}

\* The pairs of field tags passed to update_credential: a matching pair, a
\* pair naming two different fields, and a pair passed in the wrong order.
FieldPairs ==
    {fields \in CredentialUpdateField \X CredentialUpdateField :
        fields \in {<<"username_cipherbytes", "username_nonce">>,
                    <<"password_cipherbytes", "username_nonce">>,
                    <<"notes_nonce", "notes_cipherbytes">>}}

Returned(op, u, a, b, key, r) ==
    [op |-> op, res |-> r.res, at |-> r.at, u |-> u, a |-> a, b |-> b,
     key |-> key, steps |-> r.steps]

\* Both stores take the result of the call; the random numbers it drew are
\* spent if any of them reached a store.
Apply(r, drawn) ==
    /\ calls < MaxCalls
    /\ calls' = calls + 1
    /\ database' = r.db
    /\ fs' = r.fs
    /\ rng' = IF r.db # database \/ r.fs # fs THEN rng + drawn ELSE rng
    /\ UNCHANGED <<edit, disk>>

\* Vault::connect to a vault that holds nothing yet.
InitEmpty ==
    /\ database = EmptyDatabase
    /\ fs = EmptyFilesystem
    /\ rng = 0
    /\ nextKey = 1
    /\ session = [u \in Users |-> NoSession]

\* Vault::connect to a vault in which earlier runs created the accounts u1
\* and u2, and for u1 the credential n1 and the file f1.
InitPopulated ==
    /\ database =
         [accounts |-> {Account_new("u1", "p1", new_rand_key(1), 1, 2, 3),
                        Account_new("u2", "p2", new_rand_key(2), 4, 5, 6)},
          credentials |->
              {Credential_try_new("u1", new_rand_key(1), "n1", "t1", "t1", "t1", 6)},
          files_data |->
              {FileData_new(get_file_path("u1", "f1"), "f1", "u1", 11)}]
    /\ fs = WithBlob([dirs |-> {"u1", "u2"}, blobs |-> {}],
                     get_file_path("u1", "f1"),
                     try_encrypt_bytes_key_nonce("t1", new_rand_key(1), 11).cipherbytes)
    /\ rng = 11
    /\ nextKey = 3
    /\ session = [u \in Users |->
                    IF u = "u1" THEN [pw |-> "p1", key |-> new_rand_key(1)]
                                ELSE [pw |-> "p2", key |-> new_rand_key(2)]]

Init ==
    /\ InitEmpty \/ InitPopulated
    /\ calls = 0
    /\ last = [op |-> "connect", res |-> "Ok", at |-> "none", u |-> "",
               a |-> "", b |-> "", key |-> BadKey, steps |-> <<>>]
    /\ edit = NoEdit
    /\ disk = ConnectedDisk

CreateNewAccount ==
    \E u \in Users, p \in Passwords, fault \in {"none", "fs", "commit"} :
        LET account == Account_new(u, p, new_rand_key(nextKey),
                                   rng + 1, rng + 2, rng + 3)
            r == create_new_account(account, fault)
        IN  /\ Apply(r, 3)
            /\ nextKey' = nextKey + 1
            /\ session' = IF r.res = "Ok"
                          THEN [session EXCEPT ![u] =
                                  [pw |-> p, key |-> new_rand_key(nextKey)]]
                          ELSE session
            /\ last' = Returned("create_new_account", u, p, "", BadKey, r)

DeleteAccount ==
    \E u \in Users, fault \in {"none", "fs", "fs_partial", "commit"} :
        \E gone \in SUBSET {b \in fs.blobs : b.dir = u} :
            /\ fault = "fs_partial" <=> gone # {}
            /\ LET r == delete_account(u, [fs EXCEPT !.blobs = @ \ gone], fault)
               IN  /\ Apply(r, 0)
                   /\ session' = IF r.res = "Ok"
                                 THEN [session EXCEPT ![u] = NoSession]
                                 ELSE session
                   /\ last' = Returned("delete_account", u, "", "", BadKey, r)
                   /\ UNCHANGED nextKey

ChangeAccountPassword ==
    \E u \in Users, old \in Passwords, new \in Passwords,
       fault \in {"none", "db"}, done \in {0, 1, 4} :
        /\ fault = "db" <=> done # 0
        /\ LET r == change_account_password(u, old, new,
                        rng + 1, rng + 2, rng + 3, done, fault)
           IN  /\ Apply(r, 3)
               /\ session' = IF r.res = "Ok"
                             THEN [session EXCEPT ![u].pw = new]
                             ELSE session
               /\ last' = Returned("change_account_password", u, new, old,
                                   BadKey, r)
               /\ UNCHANGED nextKey

CreateCredential ==
    \E u \in Users, key \in CallerKeys, name \in Names, v \in CreatedTexts,
       fault \in {"none", "db"} :
        \E loaded \in load_credential(database, u, name, key) :
            LET credential == Credential_try_new(u, key, name, v, v, v, rng)
                r == create_credential(credential, loaded, fault)
            IN  /\ Apply(r, 4)
                /\ last' = Returned("create_credential", u, name, "", key, r)
                /\ UNCHANGED <<nextKey, session>>

DeleteCredential ==
    \E u \in Users, key \in CallerKeys, name \in Names,
       fault \in {"none", "commit"} :
        \E loaded \in load_credential(database, u, name, key) :
            LET r == delete_credential(u, loaded, fault)
            IN  /\ Apply(r, 0)
                /\ last' = Returned("delete_credential", u, name, "", key, r)
                /\ UNCHANGED <<nextKey, session>>

UpdateCredential ==
    \E u \in Users, key \in CallerKeys, name \in Names, v \in UpdatedTexts,
       fields \in FieldPairs, fault \in {"none", "db"} :
        \E loaded \in load_credential(database, u, name, key) :
            LET r == update_credential(u, loaded, key, fields[1], fields[2],
                         v, rng + 1, 1, fault)
            IN  /\ Apply(r, 1)
                /\ last' = Returned("update_credential", u, name, fields[1],
                                    key, r)
                /\ UNCHANGED <<nextKey, session>>

CreateFile ==
    \E u \in Users, key \in CallerKeys, f \in Filenames, c \in CreatedTexts,
       fault \in Faults \ {"db"} :
        LET r == create_file(f, u, c, key, rng + 1, fault)
        IN  /\ Apply(r, 1)
            /\ last' = Returned("create_file", u, f, c, key, r)
            /\ UNCHANGED <<nextKey, session>>

DeleteFile ==
    \E u \in Users, f \in Filenames, fault \in {"none", "fs", "commit"} :
        LET r == delete_file(u, f, fault)
        IN  /\ Apply(r, 0)
            /\ last' = Returned("delete_file", u, f, "", BadKey, r)
            /\ UNCHANGED <<nextKey, session>>

UpdateFile ==
    \E u \in Users, key \in CallerKeys, f \in Filenames, c \in UpdatedTexts,
       fault \in Faults \ {"db", "fs"} :
        LET r == update_file(u, f, key, c, rng + 1, fault)
        IN  /\ Apply(r, 1)
            /\ last' = Returned("update_file", u, f, c, key, r)
            /\ UNCHANGED <<nextKey, session>>

Next ==
    \/ CreateNewAccount
    \/ DeleteAccount
    \/ ChangeAccountPassword
    \/ CreateCredential
    \/ DeleteCredential
    \/ UpdateCredential
    \/ CreateFile
    \/ DeleteFile
    \/ UpdateFile

Spec == Init /\ [][Next]_vars

(***************************************************************************)
(* Account::unlock as a function of the stored row and the password.  The  *)
(* row is what Account::from_b64 builds from six stored strings: any       *)
(* salts, any hash and any sealed key of the right lengths.                *)
(***************************************************************************)
\* Salts run over 1..MaxSalt.
MaxSalt == 2

\* Account::from_b64.
Account_from_b64(username, password_salt, dbl_hashed_password_hash, dbl_hashed_password_salt, encrypted_key_cipherbytes, encrypted_key_nonce) ==
    [username |-> username,
     password_salt |-> password_salt,
     dbl_hashed_password_hash |-> dbl_hashed_password_hash,
     dbl_hashed_password_salt |-> dbl_hashed_password_salt,
     encrypted_key_cipherbytes |-> encrypted_key_cipherbytes,
     encrypted_key_nonce |-> encrypted_key_nonce]

\* The sealed keys a stored row may hold: sealed under the hash of either
\* password, whole or cut short, with the nonce it was sealed with or not.
StoredSealedKeys(salt) ==
    {Encrypted_from_fields(
         [try_encrypt_bytes_key_nonce(new_rand_key(1), hash_with_salt(Bytes(p), salt), 1).cipherbytes EXCEPT !.full = whole],
         nonce) : p \in Passwords, whole \in BOOLEAN, nonce \in 1..2}

\* The stored rows: the double hash is that of some password, the sealed
\* key is any of StoredSealedKeys.
StoredAccounts ==
    {Account_from_b64(u, salt1,
                      hash_with_salt(hash_with_salt(Bytes(p), salt1), salt2),
                      salt2, sealed.cipherbytes, sealed.nonce) :
        u \in Users, p \in Passwords, salt1 \in 1..MaxSalt,
        salt2 \in 1..MaxSalt, sealed \in UNION {StoredSealedKeys(s) : s \in 1..MaxSalt}}

\* A vault holding one stored row and its directory.
InitUnlock ==
    /\ \E account \in StoredAccounts :
           /\ database = [EmptyDatabase EXCEPT !.accounts = {account}]
           /\ fs = [EmptyFilesystem EXCEPT !.dirs = {account.username}]
    /\ rng = 0
    /\ nextKey = 2
    /\ calls = 0
    /\ session = [u \in Users |-> NoSession]
    /\ last = [op |-> "connect", res |-> "Ok", err |-> "", u |-> "",
               a |-> "", key |-> BadKey]
    /\ edit = NoEdit
    /\ disk = ConnectedDisk

\* Account::unlock on the stored row.
Unlock ==
    \E account \in database.accounts, password \in Passwords :
        LET r == unlock(account, password)
        IN  /\ calls < MaxCalls
            /\ calls' = calls + 1
            /\ last' = [op |-> "unlock",
                        res |-> IF r.ok THEN "Ok" ELSE "Err",
                        err |-> r.err, u |-> account.username,
                        a |-> password, key |-> r.key]
            /\ UNCHANGED <<database, fs, rng, nextKey, session, edit, disk>>

NextUnlock == Unlock

SpecUnlock == InitUnlock /\ [][NextUnlock]_vars

(***************************************************************************)
(* Vault::connect.  disk.data_dir is what the path of the data directory   *)
(* names (nothing, a file, a read-only directory, a directory) and         *)
(* disk.db_file what the path of the database names (nothing, a file       *)
(* without tables, a file with the three tables).  `database` is the rows  *)
(* the file holds.                                                         *)
(***************************************************************************)
DataDirKinds == {"missing", "file", "readonly", "dir"}
DbFileKinds == {"absent", "empty", "tables"}

\* verify_writeable_dir on the data directory.
verify_writeable_data_dir(d) == d.data_dir = "dir"

\* A connect that opens the database with SQLITE_OPEN_CREATE.
Database_connect_CreatesFile(d, db) ==
    [ok |-> TRUE, db_file |-> "tables", db |-> IF d.db_file = "tables" THEN db ELSE EmptyDatabase]

\* Database::connect: open read-write without create, then CREATE TABLE IF
\* NOT EXISTS for the three tables.
Database_connect(d, db) ==
    IF d.db_file = "absent"
    THEN [ok |-> FALSE, db_file |-> d.db_file, db |-> db]
    ELSE [ok |-> TRUE, db_file |-> "tables", db |-> db]

\* Vault::connect.
Vault_connect(d, db) ==
    IF ~verify_writeable_data_dir(d)
    THEN [res |-> "Err", at |-> "fs", db_file |-> d.db_file, db |-> db]
    ELSE IF ~Database_connect(d, db).ok
    THEN [res |-> "Err", at |-> "db", db_file |-> d.db_file, db |-> db]
    ELSE [res |-> "Ok", at |-> "none", db_file |-> Database_connect(d, db).db_file, db |-> Database_connect(d, db).db]

\* The rows a database file with tables may hold from earlier runs.
StoredDatabases ==
    {[accounts |-> as, credentials |-> cs, files_data |-> fd] :
        as \in SUBSET {Account_new("u1", "p1", new_rand_key(1), 1, 2, 3), Account_new("u2", "p2", new_rand_key(2), 4, 5, 6)},
        cs \in SUBSET {Credential_try_new("u1", new_rand_key(1), "n1", "t1", "t1", "t1", 6)},
        fd \in SUBSET {FileData_new(get_file_path("u1", "f1"), "f1", "u1", 11)}}

\* The directories and blobs that go with the rows, when the data
\* directory is a directory.
StoredFilesystem(d, db) ==
    IF d.data_dir \notin {"dir", "readonly"} THEN EmptyFilesystem
    ELSE [dirs |-> {a.username : a \in db.accounts},
          blobs |-> {[dir |-> Resolve(f.path).dir, leaf |-> Resolve(f.path).leaf,
                      bytes |-> try_encrypt_bytes_key_nonce("t1", new_rand_key(1), f.contents_nonce).cipherbytes] : f \in db.files_data}]

InitConnect ==
    /\ \E dd \in DataDirKinds, df \in DbFileKinds, db \in StoredDatabases :
           /\ df # "tables" => db = EmptyDatabase
           /\ \A c \in db.credentials : select_entry_account(db, c.owner_username) # {}
           /\ \A f \in db.files_data : select_entry_account(db, f.owner_username) # {}
           /\ disk = [ConnectedDisk EXCEPT !.data_dir = dd, !.db_file = df]
           /\ database = db
           /\ fs = StoredFilesystem(disk, db)
    /\ rng = 0
    /\ nextKey = 3
    /\ calls = 0
    /\ session = [u \in Users |-> NoSession]
    /\ last = [op |-> "start", res |-> "Ok", at |-> "none"]
    /\ edit = NoEdit

\* Vault::connect, once more after each return.
Connect ==
    LET r == Vault_connect(disk, database)
    IN  /\ calls < MaxCalls
        /\ calls' = calls + 1
        /\ disk' = [disk EXCEPT !.db_file = r.db_file]
        /\ database' = r.db
        /\ last' = [op |-> "connect", res |-> r.res, at |-> r.at]
        /\ UNCHANGED <<fs, rng, nextKey, session, edit>>

NextConnect == Connect

SpecConnect == InitConnect /\ [][NextConnect]_vars

(***************************************************************************)
(* utils.rs: where the data and the configuration live.  disk.DATA and     *)
(* disk.CONFIG are the environment variables DGRUFT_DATA and               *)
(* DGRUFT_CONFIG; disk.project is what ProjectDirs::from finds: nothing,   *)
(* the platform's directories, or directories whose path is not UTF-8.     *)
(***************************************************************************)
EnvValues == {"/a", "/b"}
ProjectKinds == {"none", "dirs", "non_utf8"}

\* data_dir_env_var and config_dir_env_var: get_env_var_path.
data_dir_env_var(d) == d.DATA
config_dir_env_var(d) == d.CONFIG

\* data_dir.
data_dir(d) ==
    IF data_dir_env_var(d) # Unset
    THEN [res |-> "Ok", path |-> data_dir_env_var(d)]
    ELSE IF d.project = "dirs" THEN [res |-> "Ok", path |-> "data_local_dir"]
    ELSE IF d.project = "non_utf8" THEN [res |-> "Err", path |-> ""]
    ELSE [res |-> "Ok", path |-> "./.config"]

\* config_dir.
config_dir(d) ==
    IF data_dir_env_var(d) # Unset
    THEN [res |-> "Ok", path |-> data_dir_env_var(d)]
    ELSE IF d.project = "dirs" THEN [res |-> "Ok", path |-> "config_local_dir"]
    ELSE IF d.project = "non_utf8" THEN [res |-> "Err", path |-> ""]
    ELSE [res |-> "Ok", path |-> "./.config"]

InitDirs ==
    /\ \E data \in EnvValues \cup {Unset}, config \in EnvValues \cup {Unset}, project \in ProjectKinds :
           disk = [ConnectedDisk EXCEPT !.DATA = data, !.CONFIG = config, !.project = project]
    /\ database = EmptyDatabase
    /\ fs = EmptyFilesystem
    /\ rng = 0
    /\ nextKey = 1
    /\ calls = 0
    /\ session = [u \in Users |-> NoSession]
    /\ last = [op |-> "start", res |-> "Ok", path |-> ""]
    /\ edit = NoEdit

\* A call of data_dir().
DataDir ==
    /\ calls < MaxCalls
    /\ calls' = calls + 1
    /\ last' = [op |-> "data_dir", res |-> data_dir(disk).res, path |-> data_dir(disk).path]
    /\ UNCHANGED <<database, fs, rng, nextKey, session, edit, disk>>

\* A call of config_dir().
ConfigDir ==
    /\ calls < MaxCalls
    /\ calls' = calls + 1
    /\ last' = [op |-> "config_dir", res |-> config_dir(disk).res, path |-> config_dir(disk).path]
    /\ UNCHANGED <<database, fs, rng, nextKey, session, edit, disk>>

NextDirs ==
    \/ DataDir
    \/ ConfigDir

SpecDirs == InitDirs /\ [][NextDirs]_vars

(***************************************************************************)
(* The metadata store by itself: Database::insert_entry, select_entry,     *)
(* select_entry_err_none and delete_entry on the tables that               *)
(* Database::connect creates in a new database file.  In this              *)
(* specification `database` holds each row as SQLite stores it: the        *)
(* base64 strings of into_database, in the order of the table's columns.   *)
(***************************************************************************)
Range(s) == {s[i] : i \in 1..Len(s)}

\* The columns of the three tables, as sql_schemas.rs creates them.
CREATE_ACCOUNTS ==
    <<"username", "password_salt", "dbl_hashed_password_hash", "dbl_hashed_password_salt", "encrypted_key_cipherbytes", "encrypted_key_nonce">>

CREATE_CREDENTIALS ==
    <<"owner_username", "encrypted_name_cipherbytes", "encrypted_name_nonce", "encrypted_username_cipherbytes", "encrypted_username_nonce", "encrypted_password_cipherbytes", "encrypted_password_nonce", "encrypted_notes_cipherbytes", "encrypted_notes_nonce">>

CREATE_FILES_DATA ==
    <<"path", "filename", "owner_username", "content_nonce">>

\* The columns the INSERT and SELECT statements of sql_statements.rs name.
INSERT_ACCOUNT == CREATE_ACCOUNTS

INSERT_CREDENTIAL == CREATE_CREDENTIALS

INSERT_FILE_DATA ==
    <<"path", "filename", "owner_username", "contents_nonce">>

\* The columns of the WHERE clause of the SELECT and DELETE statements.
DELETE_ACCOUNT == <<"username">>

DELETE_CREDENTIAL == <<"owner_username", "encrypted_name_cipherbytes">>

DELETE_FILE_DATA == <<"path">>

\* The implementors of HasSqlStatements.
EntryTypes == {"Account", "Credential", "FileData"}

TableOf(T) ==
    CASE T = "Account" -> "accounts" [] T = "Credential" -> "credentials" [] OTHER -> "files_data"

sql_create(T) ==
    CASE T = "Account" -> CREATE_ACCOUNTS [] T = "Credential" -> CREATE_CREDENTIALS [] OTHER -> CREATE_FILES_DATA

sql_insert(T) ==
    CASE T = "Account" -> INSERT_ACCOUNT [] T = "Credential" -> INSERT_CREDENTIAL [] OTHER -> INSERT_FILE_DATA

\* SELECT names the columns INSERT names, and the WHERE columns among them.
sql_select(T) == sql_insert(T)

sql_delete(T) ==
    CASE T = "Account" -> DELETE_ACCOUNT [] T = "Credential" -> DELETE_CREDENTIAL [] OTHER -> DELETE_FILE_DATA

\* Connection::prepare: a statement that names a column the table does not
\* have is an error.
prepare(T, statement) == Range(statement) \subseteq Range(sql_create(T))

\* IntoB64 and its inverses.
into_b64(v) == [b64 |-> v]

b64_to_bytes(s) == s.b64

\* b64_to_fixed for a nonce: text that does not decode to 12 bytes is an
\* error.
b64_to_fixed_ok(s) == s.b64 # NotANonce

\* IntoDatabase::into_database.
into_database(T, e) ==
    CASE T = "Account" -> <<into_b64(e.username), into_b64(e.password_salt), into_b64(e.dbl_hashed_password_hash), into_b64(e.dbl_hashed_password_salt), into_b64(e.encrypted_key_cipherbytes), into_b64(e.encrypted_key_nonce)>>
      [] T = "Credential" -> <<into_b64(e.owner_username), into_b64(e.name_cipherbytes), into_b64(e.name_nonce), into_b64(e.username_cipherbytes), into_b64(e.username_nonce), into_b64(e.password_cipherbytes), into_b64(e.password_nonce), into_b64(e.notes_cipherbytes), into_b64(e.notes_nonce)>>
      [] OTHER -> <<into_b64(e.path), into_b64(e.filename), into_b64(e.owner_username), into_b64(e.contents_nonce)>>

\* TryFromDatabase::try_from_database: the entry of a row, and whether
\* every fixed-length column decoded.
try_from_database(T, row) ==
    CASE T = "Account" -> [ok |-> b64_to_fixed_ok(row[6]), entry |-> Account_from_b64(b64_to_bytes(row[1]), b64_to_bytes(row[2]), b64_to_bytes(row[3]), b64_to_bytes(row[4]), b64_to_bytes(row[5]), b64_to_bytes(row[6]))]
      [] T = "Credential" -> [ok |-> \A i \in {3, 5, 7, 9} : b64_to_fixed_ok(row[i]), entry |-> [owner_username |-> b64_to_bytes(row[1]), name_cipherbytes |-> b64_to_bytes(row[2]), name_nonce |-> b64_to_bytes(row[3]), username_cipherbytes |-> b64_to_bytes(row[4]), username_nonce |-> b64_to_bytes(row[5]), password_cipherbytes |-> b64_to_bytes(row[6]), password_nonce |-> b64_to_bytes(row[7]), notes_cipherbytes |-> b64_to_bytes(row[8]), notes_nonce |-> b64_to_bytes(row[9])]]
      [] OTHER -> [ok |-> b64_to_fixed_ok(row[4]), entry |-> FileData_new(b64_to_bytes(row[1]), b64_to_bytes(row[2]), b64_to_bytes(row[3]), b64_to_bytes(row[4]))]

\* The primary key of a stored row: the leading columns the WHERE clause
\* names.
PrimaryKeyOf(T, row) == SubSeq(row, 1, Len(sql_delete(T)))

\* The primary_key_arr of an entry, before get_params_iter encodes it.
primary_key_arr(T, e) ==
    CASE T = "Account" -> <<e.username>> [] T = "Credential" -> <<e.owner_username, e.name_cipherbytes>> [] OTHER -> <<e.path>>

\* Database::get_params_iter.
get_params_iter(params_arr) == [i \in 1..Len(params_arr) |-> into_b64(params_arr[i])]

\* The rows a WHERE clause on the primary key matches.
Matching(db, T, key_arr) ==
    {row \in db[TableOf(T)] : PrimaryKeyOf(T, row) = get_params_iter(key_arr)}

\* FOREIGN KEY (owner_username) REFERENCES accounts(username), enforced
\* because connect sets SQLITE_DBCONFIG_ENABLE_FKEY.
OwnerExists(db, T, row) ==
    CASE T = "Account" -> TRUE
      [] T = "Credential" -> \E a \in db.accounts : a[1] = row[1]
      [] OTHER -> \E a \in db.accounts : a[1] = row[3]

\* Database::insert_entry.
insert_entry(db, T, entry) ==
    LET row == into_database(T, entry)
    IN  IF ~prepare(T, sql_insert(T)) THEN [res |-> "Err", db |-> db]
        ELSE IF \E r \in db[TableOf(T)] : PrimaryKeyOf(T, r) = PrimaryKeyOf(T, row) THEN [res |-> "Err", db |-> db]
        ELSE IF ~OwnerExists(db, T, row) THEN [res |-> "Err", db |-> db]
        ELSE [res |-> "Ok", db |-> [db EXCEPT ![TableOf(T)] = @ \cup {row}]]

\* Database::select_entry: Err, or Ok with no entry (None) or one (Some).
select_entry(db, T, key_arr) ==
    LET rows == Matching(db, T, key_arr)
    IN  IF ~prepare(T, sql_select(T)) THEN [res |-> "Err", entry |-> {}]
        ELSE IF rows = {} THEN [res |-> "Ok", entry |-> {}]
        ELSE IF \E r \in rows : ~try_from_database(T, r).ok THEN [res |-> "Err", entry |-> {}]
        ELSE [res |-> "Ok", entry |-> {try_from_database(T, r).entry : r \in rows}]

\* Database::select_entry_err_none.
select_entry_err_none(db, T, key_arr) ==
    IF select_entry(db, T, key_arr) = [res |-> "Ok", entry |-> {}]
    THEN [res |-> "Err", entry |-> {}]
    ELSE select_entry(db, T, key_arr)

\* Database::delete_entry, with ON DELETE CASCADE from accounts.
delete_entry(db, T, key_arr) ==
    LET rows == Matching(db, T, key_arr)
    IN  IF ~prepare(T, sql_delete(T)) \/ rows = {} THEN [res |-> "Err", db |-> db]
        ELSE IF T # "Account" THEN [res |-> "Ok", db |-> [db EXCEPT ![TableOf(T)] = @ \ rows]]
        ELSE [res |-> "Ok", db |-> [accounts |-> db.accounts \ rows, credentials |-> {c \in db.credentials : \A a \in rows : c[1] # a[1]}, files_data |-> {f \in db.files_data : \A a \in rows : f[3] # a[1]}]]

\* The entries handed to the store.
Entries(T) ==
    CASE T = "Account" -> {Account_new("u1", "p1", new_rand_key(1), 1, 2, 3), Account_new("u2", "p2", new_rand_key(2), 4, 5, 6)}
      [] T = "Credential" -> {Credential_try_new("u1", new_rand_key(1), "n1", "t1", "t1", "t1", 6), Credential_try_new("u2", new_rand_key(2), "n1", "t1", "t1", "t1", 12)}
      [] OTHER -> {FileData_new(get_file_path("u1", "f1"), "f1", "u1", 11), FileData_new(get_file_path("u2", "f1"), "f1", "u2", 17)}

\* A database file just created and connected to: three empty tables.
InitStore ==
    /\ database = EmptyDatabase
    /\ fs = EmptyFilesystem
    /\ rng = 0
    /\ nextKey = 3
    /\ calls = 0
    /\ session = [u \in Users |-> NoSession]
    /\ last = [op |-> "connect", T |-> "", entry |-> "", res |-> "Ok", got |-> {}]
    /\ edit = NoEdit
    /\ disk = ConnectedDisk

InsertEntry ==
    \E T \in EntryTypes : \E e \in Entries(T) :
        /\ database' = insert_entry(database, T, e).db
        /\ last' = [op |-> "insert_entry", T |-> T, entry |-> e, res |-> insert_entry(database, T, e).res, got |-> {}]
        /\ UNCHANGED <<fs, rng, nextKey, calls, session, edit, disk>>

SelectEntry ==
    \E T \in EntryTypes : \E e \in Entries(T) :
        /\ last' = [op |-> "select_entry", T |-> T, entry |-> e, res |-> select_entry(database, T, primary_key_arr(T, e)).res, got |-> select_entry(database, T, primary_key_arr(T, e)).entry]
        /\ UNCHANGED <<database, fs, rng, nextKey, calls, session, edit, disk>>

DeleteEntry ==
    \E T \in EntryTypes : \E e \in Entries(T) :
        /\ database' = delete_entry(database, T, primary_key_arr(T, e)).db
        /\ last' = [op |-> "delete_entry", T |-> T, entry |-> e, res |-> delete_entry(database, T, primary_key_arr(T, e)).res, got |-> {}]
        /\ UNCHANGED <<fs, rng, nextKey, calls, session, edit, disk>>

NextStore ==
    \/ InsertEntry
    \/ SelectEntry
    \/ DeleteEntry

SpecStore == InitStore /\ [][NextStore]_vars

(***************************************************************************)
(* The read operations of the Vault, on a vault as earlier runs may have   *)
(* left it: rows with or without their directory and blob, directories     *)
(* and blobs with or without their rows.                                   *)
(***************************************************************************)
\* Vault::load_account_credentials.
load_account_credentials(db, owner_username) == select_owned_credentials(db, owner_username)

\* Vault::load_account_files_data: Database::select_owned_entries for
\* FileData.
load_account_files_data(db, owner_username) ==
    [ok |-> TRUE, rows |-> {f \in db.files_data : f.owner_username = owner_username}]

\* The filesystem after Vault::load_file: get_file_path and the SELECT
\* read only, then open_file and read_file_bytes on the handle.
load_file_opens(db, files, username, filename) ==
    IF ~verify_writeable_dir(files, username) THEN files
    ELSE IF \A f \in db.files_data : f.path # get_file_path(username, filename) THEN files
    ELSE open_file(files, get_file_path(username, filename)).fs

ReadOperations ==
    {"load_account", "load_unlocked_account", "load_credential", "load_account_credentials", "load_file", "load_account_files_data"}

StoredKeys == {new_rand_key(1), new_rand_key(2)}

ResultOf(ok) == IF ok THEN "Ok" ELSE "Err"

InitLoad ==
    /\ \E db \in StoredDatabases, dirs \in SUBSET Users, blobs \in SUBSET StoredFilesystem(ConnectedDisk, [EmptyDatabase EXCEPT !.files_data = {FileData_new(get_file_path("u1", "f1"), "f1", "u1", 11)}]).blobs :
           /\ \A c \in db.credentials : select_entry_account(db, c.owner_username) # {}
           /\ \A f \in db.files_data : select_entry_account(db, f.owner_username) # {}
           /\ \A b \in blobs : b.dir \in dirs
           /\ database = db
           /\ fs = [dirs |-> dirs, blobs |-> blobs]
    /\ rng = 11
    /\ nextKey = 3
    /\ calls = 0
    /\ session = [u \in Users |-> NoSession]
    /\ last = [op |-> "connect", res |-> "Ok", u |-> "", a |-> "", key |-> BadKey]
    /\ edit = NoEdit
    /\ disk = ConnectedDisk

LoadAccount ==
    \E u \in Users :
        /\ last' = [op |-> "load_account", res |-> ResultOf(load_account(database, fs, u).ok), u |-> u, a |-> "", key |-> BadKey]
        /\ UNCHANGED <<database, fs, rng, nextKey, calls, session, edit, disk>>

LoadUnlockedAccount ==
    \E u \in Users, p \in Passwords :
        /\ last' = [op |-> "load_unlocked_account", res |-> ResultOf(load_unlocked_account(database, fs, u, p).ok), u |-> u, a |-> p, key |-> load_unlocked_account(database, fs, u, p).key]
        /\ UNCHANGED <<database, fs, rng, nextKey, calls, session, edit, disk>>

LoadCredential ==
    \E u \in Users, n \in Names, key \in StoredKeys :
        \E r \in load_credential(database, u, n, key) :
            /\ last' = [op |-> "load_credential", res |-> ResultOf(r.ok), u |-> u, a |-> n, key |-> key]
            /\ UNCHANGED <<database, fs, rng, nextKey, calls, session, edit, disk>>

LoadAccountCredentials ==
    \E u \in Users :
        /\ last' = [op |-> "load_account_credentials", res |-> ResultOf(load_account_credentials(database, u).ok), u |-> u, a |-> Cardinality(load_account_credentials(database, u).rows), key |-> BadKey]
        /\ UNCHANGED <<database, fs, rng, nextKey, calls, session, edit, disk>>

LoadFile ==
    \E u \in Users, f \in Filenames, key \in StoredKeys :
        /\ fs' = load_file_opens(database, fs, u, f)
        /\ last' = [op |-> "load_file", res |-> ResultOf(load_file(database, fs, u, f, key).ok), u |-> u, a |-> f, key |-> key]
        /\ UNCHANGED <<database, rng, nextKey, calls, session, edit, disk>>

LoadAccountFilesData ==
    \E u \in Users :
        /\ last' = [op |-> "load_account_files_data", res |-> ResultOf(load_account_files_data(database, u).ok), u |-> u, a |-> Cardinality(load_account_files_data(database, u).rows), key |-> BadKey]
        /\ UNCHANGED <<database, fs, rng, nextKey, calls, session, edit, disk>>

NextLoad ==
    \/ LoadAccount
    \/ LoadUnlockedAccount
    \/ LoadCredential
    \/ LoadAccountCredentials
    \/ LoadFile
    \/ LoadAccountFilesData

SpecLoad == InitLoad /\ [][NextLoad]_vars

(***************************************************************************)
(* edit_bytes (edit.rs): write the input to a new temp file, let the       *)
(* editor change it, read it back, shred the file and return what was      *)
(* read.  A byte of the file is 0 if the input or the editor wrote it and  *)
(* k if pass k of shred_tempfile wrote it.  edit.input is the argument of  *)
(* the call, edit.buf what it read back, and edit.pos the cursor of the    *)
(* handle shred_tempfile writes through.                                   *)
(***************************************************************************)
\* The longest input and the longest edited text.
MaxLen == 3

\* const PASSES: the number of passes of shred_tempfile.
PASSES == 3

\* `n` bytes written by `who`.
BytesOf(who, n) == [i \in 1..n |-> who]

\* Write::write_all at the cursor: the bytes under the cursor are replaced
\* and the file grows if the write runs past its end.
write_all(bytes, pos, data) ==
    [i \in 1..(IF Len(bytes) > pos + Len(data) THEN Len(bytes) ELSE pos + Len(data)) |->
        IF i > pos /\ i <= pos + Len(data) THEN data[i - pos] ELSE bytes[i]]

InitEdit ==
    /\ database = EmptyDatabase
    /\ fs = EmptyFilesystem
    /\ rng = 0
    /\ nextKey = 1
    /\ calls = 0
    /\ session = [u \in Users |-> NoSession]
    /\ last = [op |-> "connect", res |-> "Ok", at |-> "none", u |-> "",
               a |-> "", b |-> "", key |-> BadKey, steps |-> <<>>]
    /\ edit = NoEdit
    /\ disk = ConnectedDisk

\* new_tempfile: File::create of a new name.
NewTempfile ==
    /\ edit.pc = "start"
    /\ edit' = [edit EXCEPT !.pc = "created", !.exists = TRUE]
    /\ UNCHANGED <<database, fs, rng, nextKey, calls, session, last, disk>>

\* edit_bytes: open the temp file and write_all the input.
WriteInput ==
    \E n \in 0..MaxLen :
        /\ edit.pc = "created"
        /\ edit' = [edit EXCEPT !.pc = "written", !.input = BytesOf(0, n),
                                !.bytes = write_all(edit.bytes, 0, BytesOf(0, n))]
        /\ UNCHANGED <<database, fs, rng, nextKey, calls, session, last, disk>>

\* edit::edit_file: the editor saves a text of its own length.
EditFile ==
    \E m \in 0..MaxLen :
        /\ edit.pc = "written"
        /\ edit' = [edit EXCEPT !.pc = "edited", !.bytes = BytesOf(0, m)]
        /\ UNCHANGED <<database, fs, rng, nextKey, calls, session, last, disk>>

\* edit_bytes: seek to the start and read_to_end.
ReadBack ==
    /\ edit.pc = "edited"
    /\ edit' = [edit EXCEPT !.pc = "read", !.buf = edit.bytes]
    /\ UNCHANGED <<database, fs, rng, nextKey, calls, session, last, disk>>

\* shred_tempfile: open the file again (cursor at 0) and take its length.
ShredOpen ==
    /\ edit.pc = "read"
    /\ edit' = [edit EXCEPT !.pc = "shredding", !.pos = 0,
                            !.len = Len(edit.bytes), !.passes = 0]
    /\ UNCHANGED <<database, fs, rng, nextKey, calls, session, last, disk>>

\* shred_tempfile: one pass of the loop, write_all of tempfile_len random
\* bytes at the cursor, which the write leaves at its end.
ShredPass ==
    /\ edit.pc = "shredding"
    /\ edit.passes < PASSES
    /\ edit' = [edit EXCEPT !.passes = @ + 1,
                            !.bytes = write_all(edit.bytes, edit.pos, BytesOf(edit.passes + 1, edit.len)),
                            !.pos = @ + edit.len]
    /\ UNCHANGED <<database, fs, rng, nextKey, calls, session, last, disk>>

\* shred_tempfile: fs::remove_file after the loop.
RemoveTempfile ==
    /\ edit.pc = "shredding"
    /\ edit.passes = PASSES
    /\ edit' = [edit EXCEPT !.pc = "removed", !.exists = FALSE]
    /\ UNCHANGED <<database, fs, rng, nextKey, calls, session, last, disk>>

\* edit_bytes: Ok(buf).
ReturnOk ==
    /\ edit.pc = "removed"
    /\ edit' = [edit EXCEPT !.pc = "ok"]
    /\ UNCHANGED <<database, fs, rng, nextKey, calls, session, last, disk>>

\* Any `?` of edit_bytes or shred_tempfile: the call it guards fails and
\* edit_bytes returns the error, leaving the temp file as it is.
ReturnErr ==
    /\ edit.pc \in {"created", "written", "edited", "read", "shredding"}
    /\ edit' = [edit EXCEPT !.pc = "err"]
    /\ UNCHANGED <<database, fs, rng, nextKey, calls, session, last, disk>>

NextEdit ==
    \/ NewTempfile
    \/ WriteInput
    \/ EditFile
    \/ ReadBack
    \/ ShredOpen
    \/ ShredPass
    \/ RemoveTempfile
    \/ ReturnOk
    \/ ReturnErr

SpecEdit == InitEdit /\ [][NextEdit]_vars

(***************************************************************************)
(* Properties.                                                             *)
(***************************************************************************)
\* The stores after a call that returned Ok show what the call was asked to
\* do (the call and its arguments are in last').
Reflects ==
    LET u == last'.u
        a == last'.a
    IN  CASE last'.op = "create_new_account" ->
                /\ load_unlocked_account(database', fs', u, a).ok
                /\ u \in fs'.dirs
          [] last'.op = "delete_account" ->
                /\ select_entry_account(database', u) = {}
                /\ u \notin fs'.dirs
          [] last'.op = "change_account_password" ->
                load_unlocked_account(database', fs', u, a).ok
          [] last'.op = "create_credential" ->
                \E c \in database'.credentials \ database.credentials :
                    /\ c.owner_username = u
                    /\ credential_name(c, last'.key).ok
                    /\ credential_name(c, last'.key).pt = a
                    /\ database'.credentials = database.credentials \cup {c}
          [] last'.op = "delete_credential" ->
                \E c \in database.credentials :
                    /\ c.owner_username = u
                    /\ credential_name(c, last'.key).pt = a
                    /\ database'.credentials = database.credentials \ {c}
          [] last'.op = "update_credential" ->
                \E c \in database.credentials, d \in database'.credentials :
                    /\ c.owner_username = u
                    /\ d # c
                    /\ d.name_cipherbytes = c.name_cipherbytes
                    /\ database'.credentials =
                           (database.credentials \ {c}) \cup {d}
          [] last'.op \in {"create_file", "update_file"} ->
                /\ load_file(database', fs', u, a, last'.key).ok
                /\ load_file(database', fs', u, a, last'.key).pt = last'.b
          [] last'.op = "delete_file" ->
                /\ \A f \in database'.files_data : f.path # get_file_path(u, a)
                /\ BlobAt(fs', get_file_path(u, a)) = {}
          [] OTHER -> FALSE

\* C1: every Vault mutation is all or nothing over both stores: a call that
\* returns an error leaves the metadata store and the filesystem
\* (directories, blobs and their bytes) exactly as they were, whichever step
\* failed, and a call that returns Ok has applied the mutation to both.
C1_AllOrNothing ==
    [][/\ last'.res = "Err" => (database' = database /\ fs' = fs)
       /\ last'.res = "Ok" => Reflects]_vars

\* C2: when a metadata statement, the filesystem step or the commit of a
\* Vault mutation fails, the metadata store afterwards holds exactly the
\* rows and column values it held before the call.
C2_FailedCallLeavesMetadata ==
    [][last'.res = "Err" => database' = database]_vars

\* C2 happens: create_file inserted its row, the write of the blob then
\* failed part-way, and the row is not in the metadata store.
C2_Witness ==
    /\ last.op = "create_file"
    /\ last.res = "Err"
    /\ last.at = "fs_partial"
    /\ BlobAt(fs, get_file_path(last.u, last.a)) # {}
    /\ \A f \in database.files_data : f.path # get_file_path(last.u, last.a)

C4_OwnersExist ==
    /\ \A c \in database.credentials :
          select_entry_account(database, c.owner_username) # {}
    /\ \A f \in database.files_data :
          select_entry_account(database, f.owner_username) # {}
    /\ \A u \in Users :
          select_entry_account(database, u) = {} =>
              /\ \A key \in AllKeys, name \in Names :
                    LET r == connection_insert_credential(database,
                                 Credential_try_new(u, key, name, "t1", "t1",
                                                    "t1", rng))
                    IN  ~r.ok /\ r.db = database
              /\ \A f \in Filenames :
                    LET r == connection_insert_file_data(database,
                                 FileData_new(get_file_path(u, f), f, u, rng + 1))
                    IN  ~r.ok /\ r.db = database
    /\ (/\ last.op \in {"create_credential", "create_file"}
        /\ last.res = "Ok")
       => select_entry_account(database, last.u) # {}

\* C4 happens: create_credential for an owner with no accounts row reached
\* the INSERT and was rejected there, and no credential is stored.
C4_Witness ==
    /\ last.op = "create_credential"
    /\ last.res = "Err"
    /\ last.at = "db"
    /\ select_entry_account(database, last.u) = {}
    /\ database.credentials = {}

C6_UniquePlaintextNames ==
    \A c1 \in database.credentials, c2 \in database.credentials :
        (/\ c1.owner_username = c2.owner_username
         /\ c1.name_cipherbytes.pt = c2.name_cipherbytes.pt) => c1 = c2

\* C7: load_unlocked_account(u, p) succeeds, returning the account's key,
\* exactly when an accounts row for u exists and p is the password the
\* account was created with or last changed to; any other password fails
\* with the incorrect-password error and yields no key.
C7_UnlockIffAccountAndPassword ==
    \A u \in Users, p \in Passwords :
        LET r == load_unlocked_account(database, fs, u, p)
            exists == select_entry_account(database, u) # {}
        IN  /\ r.ok <=> (exists /\ p = session[u].pw)
            /\ r.ok => r.key = session[u].key
            /\ (exists /\ p # session[u].pw) =>
                   (r.err = "IncorrectPassword" /\ r.key = BadKey)

\* After a change_account_password(u, p1, p2) that returned Ok, p2 unlocks u
\* with the key p1 unlocked before, and every file and credential of u that
\* loaded before the change loads with the same result.
ChangeKeepsKeyAndData ==
    LET u == last'.u
        before == load_unlocked_account(database, fs, u, last'.b)
        after == load_unlocked_account(database', fs', u, last'.a)
    IN  /\ before.ok
        /\ after.ok
        /\ after.key = before.key
        /\ \A k \in AllKeys, f \in Filenames :
              load_file(database, fs, u, f, k).ok =>
                  load_file(database', fs', u, f, k) =
                      load_file(database, fs, u, f, k)
        /\ \A k \in AllKeys, n \in Names :
              load_credential(database', u, n, k) =
                  load_credential(database, u, n, k)

\* C8 as stated: after change_account_password(u, p1, p2) returns Ok,
\* unlocking u with p1 fails, unlocking with p2 yields the same key, and
\* u's files and credentials still load with the same plaintext.
C8_OldPasswordAlwaysFails ==
    [][(last'.op = "change_account_password" /\ last'.res = "Ok") =>
        /\ ~load_unlocked_account(database', fs', last'.u, last'.b).ok
        /\ ChangeKeepsKeyAndData]_vars

\* C8, amended: after change_account_password(u, p1, p2) returns Ok,
\* unlocking u with p2 yields the same key and u's files and credentials
\* still load with the same plaintext; unlocking with p1 fails when p1 is
\* not p2.
C8_OldPasswordFailsWhenDifferent ==
    [][(last'.op = "change_account_password" /\ last'.res = "Ok") =>
        /\ last'.b # last'.a =>
              ~load_unlocked_account(database', fs', last'.u, last'.b).ok
        /\ ChangeKeepsKeyAndData]_vars

\* C8 happens: the password of an account with a file and a credential was
\* changed to a different one; the old one no longer unlocks, the new one
\* does, and the file and the credential load under the account's key.
C8_Witness ==
    /\ last.op = "change_account_password"
    /\ last.res = "Ok"
    /\ last.a # last.b
    /\ ~load_unlocked_account(database, fs, last.u, last.b).ok
    /\ load_unlocked_account(database, fs, last.u, last.a).ok
    /\ load_unlocked_account(database, fs, last.u, last.a).key
           = session[last.u].key
    /\ load_file(database, fs, last.u, "f1", session[last.u].key).pt = "t1"
    /\ \E o \in load_credential(database, last.u, "n1", session[last.u].key) :
          o.ok

\* C9: nothing persisted holds an account's password or key in the clear:
\* an accounts row holds the password salt, the double hash (not the
\* password, not the once-hashed password that seals the key) with its
\* salt, and the key sealed under the once-hashed password; a blob holds
\* bytes sealed under a key.
C9_NoPlaintextSecrets ==
    /\ \A a \in database.accounts :
          /\ a.dbl_hashed_password_hash.lvl = 2
          /\ a.dbl_hashed_password_hash.s2 = a.dbl_hashed_password_salt
          /\ a.dbl_hashed_password_hash.s1 = a.password_salt
          /\ a.encrypted_key_cipherbytes.k.lvl = 1
          /\ a.encrypted_key_cipherbytes.k # a.dbl_hashed_password_hash
          /\ a.encrypted_key_cipherbytes.pt \in AllKeys
          /\ \A p \in Passwords :
                /\ a.dbl_hashed_password_hash # Bytes(p)
                /\ a.encrypted_key_cipherbytes.k # Bytes(p)
    /\ \A b \in fs.blobs : b.bytes.k \in AllKeys

\* C9 happens: an account was created and its row, which the password
\* unlocks, is stored.
C9_Witness ==
    /\ last.op = "create_new_account"
    /\ last.res = "Ok"
    /\ \E a \in database.accounts :
          a.username = last.u /\ unlock(a, last.a).ok

\* C10: load_file and load_credential called with a key other than the one
\* the data was sealed under fail and return no plaintext.
C10_WrongKeyFails ==
    /\ \A u \in Users, f \in Filenames, k \in AllKeys :
          \A b \in BlobAt(fs, get_file_path(u, f)) :
              b.bytes.k # k =>
                  /\ ~load_file(database, fs, u, f, k).ok
                  /\ load_file(database, fs, u, f, k).pt = ""
    /\ \A c \in database.credentials, k \in AllKeys :
          c.name_cipherbytes.k # k =>
              \A o \in load_credential(database, c.owner_username,
                                       c.name_cipherbytes.pt, k) :
                  c \notin o.rows
    /\ \A u \in Users, n \in Names, k \in AllKeys :
          (\A c \in database.credentials :
              (c.owner_username = u /\ c.name_cipherbytes.pt = n) =>
                  c.name_cipherbytes.k # k)
          => \A o \in load_credential(database, u, n, k) :
                 ~o.ok /\ o.rows = {}

\* C10 happens: a file was created under one key, and loading it, and
\* loading a stored credential, with another key fails at decryption.
C10_Witness ==
    /\ last.op = "create_file"
    /\ last.res = "Ok"
    /\ \E k \in AllKeys :
          /\ k # last.key
          /\ load_file(database, fs, last.u, last.a, k).err = "Decryption"
    /\ \E c \in database.credentials, k \in AllKeys :
          /\ k # c.name_cipherbytes.k
          /\ \E o \in load_credential(database, c.owner_username,
                                      c.name_cipherbytes.pt, k) :
                o.err = "Decryption"

\* The operations that take the data-encryption key as an argument.
KeyedOperations ==
    {"create_credential", "delete_credential", "update_credential",
     "create_file", "update_file"}

\* C11: an operation that needs the key succeeds for an account only with
\* the key a successful load_unlocked_account of that account returns.
C11_OnlyUnlockedKeyAdmitted ==
    [][(last'.op \in KeyedOperations /\ last'.res = "Ok") =>
        \E p \in Passwords :
            /\ load_unlocked_account(database, fs, last'.u, p).ok
            /\ load_unlocked_account(database, fs, last'.u, p).key = last'.key]_vars

\* The positions in the steps of the last call that hold one of the names.
StepsAt(names) == {i \in 1..Len(last.steps) : last.steps[i] \in names}

\* C12: in every Vault mutation the database statements run before the
\* filesystem step and the filesystem step runs before the commit; no commit
\* is executed after a failed database or filesystem step.
C12_DbThenFsThenCommit ==
    /\ \A i \in StepsAt({"db", "db_failed"}) :
           \A j \in StepsAt({"fs", "fs_failed"}) : i < j
    /\ \A i \in StepsAt({"db", "db_failed", "fs", "fs_failed"}) :
           \A j \in StepsAt({"commit", "commit_failed"}) : i < j
    /\ \A i \in StepsAt({"db_failed", "fs_failed"}) :
           \A j \in StepsAt({"commit", "commit_failed"}) : FALSE

\* A file was created with its row inserted, its blob written and the
\* transaction committed, in that order.
C12_Witness ==
    /\ last.op = "create_file"
    /\ last.steps = <<"begin", "db", "fs", "commit">>

\* The contents_nonce of the FileData row of a file, as a set.
contents_nonce_of(db, username, filename) ==
    {f.contents_nonce : f \in {g \in db.files_data : g.path = get_file_path(username, filename)}}

C15_DeleteFileMismatchFails ==
    [][(/\ last'.op = "delete_file"
        /\ \/ contents_nonce_of(database, last'.u, last'.a) = {}
           \/ BlobAt(fs, get_file_path(last'.u, last'.a)) = {}) =>
            /\ last'.res = "Err"
            /\ database' = database
            /\ fs' = fs]_vars

\* delete_file was refused for a FileData row whose blob is missing, and
\* the row is still there.
C15_Witness ==
    /\ last.op = "delete_file"
    /\ last.res = "Err"
    /\ last.at = "fs"
    /\ contents_nonce_of(database, last.u, last.a) # {}
    /\ BlobAt(fs, get_file_path(last.u, last.a)) = {}

\* The credentials of an owner whose name opens under the key as `name`.
NamedCredentials(db, owner_username, key, name) ==
    {c \in db.credentials : c.owner_username = owner_username /\ credential_name(c, key).ok /\ credential_name(c, key).pt = name}

\* C16: create_credential fails when the owner already has a credential
\* whose name opens under the key as the same plaintext, and the owner's
\* credentials stay as they were; the same plaintext name under another
\* owner does not stop the creation.
C16_DuplicateNameRefused ==
    [][last'.op = "create_credential" =>
        /\ NamedCredentials(database, last'.u, last'.key, last'.a) # {} =>
            /\ last'.res = "Err"
            /\ select_owned_credentials(database', last'.u) =
                   select_owned_credentials(database, last'.u)
        /\ (/\ last'.u \in {a.username : a \in database.accounts}
            /\ select_owned_credentials(database, last'.u).rows = {}
            /\ \E o \in Users \ {last'.u} :
                   NamedCredentials(database, o, last'.key, last'.a) # {}) =>
            (last'.res = "Ok" \/ last'.at = "db")]_vars

\* C17: create_new_account for a username that already has an account fails
\* and leaves that account as it was: its row is the same, every password
\* unlocks it exactly as before, and its directory is present if it was.
C17_DuplicateAccountRefused ==
    [][(/\ last'.op = "create_new_account"
        /\ select_entry_account(database, last'.u) # {}) =>
            /\ last'.res = "Err"
            /\ select_entry_account(database', last'.u) =
                   select_entry_account(database, last'.u)
            /\ \A p \in Passwords :
                   load_unlocked_account(database', fs', last'.u, p) =
                       load_unlocked_account(database, fs, last'.u, p)
            /\ verify_writeable_dir(fs, last'.u) =>
                   verify_writeable_dir(fs', last'.u)]_vars

\* create_new_account was refused for an existing account, whose password
\* unlocks it and whose directory is present.
C17_Witness ==
    /\ last.op = "create_new_account"
    /\ last.res = "Err"
    /\ last.at = "db"
    /\ load_unlocked_account(database, fs, last.u, session[last.u].pw).ok
    /\ verify_writeable_dir(fs, last.u)

\* C18: an unlock rejected at the comparison of the double hash and an
\* unlock rejected at the opening of the sealed key return the same
\* incorrect-password error.
C18_OneErrorForBothSteps ==
    (last.op = "unlock" /\ last.res = "Err") => last.err = "IncorrectPassword"

\* The last call wrote to the filesystem and its transaction never
\* committed: the process died, or the commit failed, after the filesystem
\* step.
DiedBeforeCommit(call) ==
    /\ call.at = "commit"
    /\ \E i \in 1..Len(call.steps) : call.steps[i] = "fs"

AccountOperations == {"create_new_account", "delete_account"}
FileOperations == {"create_file", "delete_file", "update_file"}

\* The file (username, filename) is not the file, or not in the account
\* directory, that the call wrote to.
Unaffected(call, username, filename) ==
    IF call.op \in AccountOperations
    THEN username # call.u /\ Resolve(get_file_path(username, filename)).dir # call.u
    ELSE Resolve(get_file_path(username, filename)) # Resolve(get_file_path(call.u, call.a))

\* C19: when a Vault mutation stops between its filesystem step and its
\* commit, the next Load of the entity it was changing returns an error
\* (not found for a file or directory without its row; an I/O, directory or
\* decryption error for a row without its file or directory) and never
\* data, and every Load of another account, file or credential returns
\* what it returned before the call.
C19_CrashBeforeCommit ==
    [][DiedBeforeCommit(last') =>
        /\ last'.op = "create_new_account" =>
               load_account(database', fs', last'.u).err = "NotFound"
        /\ last'.op = "delete_account" =>
               load_account(database', fs', last'.u).err = "NoDirectory"
        /\ last'.op \in FileOperations =>
               \A k \in AllKeys \cup {BadKey} :
                   /\ ~load_file(database', fs', last'.u, last'.a, k).ok
                   /\ load_file(database', fs', last'.u, last'.a, k).err =
                          CASE last'.op = "create_file" -> "NotFound"
                            [] last'.op = "delete_file" -> "Io"
                            [] last'.op = "update_file" -> "Decryption"
        /\ \A u \in Users :
               /\ (last'.op \in FileOperations \/ u # last'.u) =>
                      load_account(database', fs', u) = load_account(database, fs, u)
               /\ \A f \in Filenames, k \in AllKeys :
                      Unaffected(last', u, f) =>
                          load_file(database', fs', u, f, k) =
                              load_file(database, fs, u, f, k)
               /\ \A n \in Names, k \in AllKeys :
                      load_credential(database', u, n, k) =
                          load_credential(database, u, n, k)]_vars

\* A delete_file stopped after the file was removed and before the commit:
\* the FileData row is there without its file.
C19_Witness ==
    /\ DiedBeforeCommit(last)
    /\ last.op = "delete_file"
    /\ contents_nonce_of(database, last.u, last.a) # {}
    /\ BlobAt(fs, get_file_path(last.u, last.a)) = {}

\* C20: after the editor returns, each of the three passes of the shred
\* writes its random bytes over the bytes that held the text, the file is
\* removed only after the third pass, and the temp file is gone when
\* edit_bytes returns Ok.
C20_ThreeOverwritesThenDelete ==
    /\ (edit.pc = "shredding" /\ edit.passes >= 1) =>
           /\ Len(edit.bytes) = edit.len
           /\ \A i \in 1..edit.len : edit.bytes[i] = edit.passes
    /\ edit.pc = "removed" => edit.passes = PASSES
    /\ edit.pc = "ok" => ~edit.exists

\* C21: Vault::connect returns Ok only if the data directory exists, is a
\* directory and is not read-only and the database file is already there;
\* it never creates the database file; and a connect leaves every stored
\* row as it was.
C21_ConnectPreconditions ==
    [][last'.op = "connect" =>
        /\ last'.res = "Ok" => (disk.data_dir = "dir" /\ disk.db_file # "absent")
        /\ disk.db_file = "absent" => disk'.db_file = "absent"
        /\ database' = database]_vars

\* A second connect to a vault that holds rows returned Ok.
C21_Witness ==
    /\ last.op = "connect"
    /\ last.res = "Ok"
    /\ calls = 2
    /\ database.accounts # {}
    /\ database.credentials # {}

\* C22: with DGRUFT_CONFIG set, config_dir() returns its value; with
\* DGRUFT_DATA set, data_dir() returns its value.
C22_EnvOverridesDirs ==
    /\ (last.op = "config_dir" /\ disk.CONFIG # Unset) =>
           (last.res = "Ok" /\ last.path = disk.CONFIG)
    /\ (last.op = "data_dir" /\ disk.DATA # Unset) =>
           (last.res = "Ok" /\ last.path = disk.DATA)

\* The five columns change_account_password writes.
PasswordColumns ==
    {"password_salt", "dbl_hashed_password_hash", "dbl_hashed_password_salt", "encrypted_key_cipherbytes", "encrypted_key_nonce"}

\* C23: after change_account_password returns, the accounts row holds the
\* five old values or five new ones, never some of each, and an Ok leaves
\* the row unlocking under the new password; with a wrong old password, or
\* a statement that does not update exactly one row, the call fails, and a
\* failed call leaves the row as it was.
C23_FiveColumnsTogether ==
    [][last'.op = "change_account_password" =>
        /\ \A a \in select_entry_account(database, last'.u) :
               \A b \in select_entry_account(database', last'.u) :
                   \/ \A c \in PasswordColumns : b[c] = a[c]
                   \/ \A c \in PasswordColumns : b[c] # a[c]
        /\ last'.res = "Ok" =>
               load_unlocked_account(database', fs', last'.u, last'.a).ok
        /\ ~load_unlocked_account(database, fs, last'.u, last'.b).ok =>
               last'.res = "Err"
        /\ select_entry_account(database, last'.u) = {} => last'.res = "Err"
        /\ last'.res = "Err" => database' = database]_vars

\* A change of password stopped at one of its statements and the row holds
\* the five old values.
C23_Witness ==
    /\ last.op = "change_account_password"
    /\ last.res = "Err"
    /\ last.at = "db"
    /\ load_unlocked_account(database, fs, last.u, last.b).ok

\* A credentials row without the two columns of its username field.
WithoutUsernameField(c) ==
    [c EXCEPT !.username_cipherbytes = NotANonce, !.username_nonce = NotANonce]

AccountKeys(db, username) ==
    {encrypted_key(a).cipherbytes.pt : a \in select_entry_account(db, username)}

\* C25: a delete_credential(owner, name, K) that returns Ok has removed
\* one row, a credential of owner whose name opens under K as name, and
\* nothing else; with a name the owner does not have under K (another
\* owner's credential included), or with a key that is not the owner's, it
\* fails and removes nothing.
C25_DeleteExactlyTheNamed ==
    [][last'.op = "delete_credential" =>
        /\ last'.res = "Ok" =>
               /\ database'.credentials \subseteq database.credentials
               /\ Cardinality(database.credentials \ database'.credentials) = 1
               /\ database.credentials \ database'.credentials \subseteq
                      NamedCredentials(database, last'.u, last'.key, last'.a)
        /\ (\/ NamedCredentials(database, last'.u, last'.key, last'.a) = {}
            \/ last'.key \notin AccountKeys(database, last'.u)) =>
               (last'.res = "Err" /\ database' = database /\ fs' = fs)]_vars

\* C26: in every state Vault operations reach, an accounts row for u
\* exists if and only if the directory of u exists.
C26_RowIffDirectory ==
    \A u \in Users :
        select_entry_account(database, u) # {} <=> verify_writeable_dir(fs, u)

C28_LoadFindsTheNamed ==
    \A u \in Users, n \in Names, k \in AllKeys :
        \A o \in load_credential(database, u, n, k) :
            IF NamedCredentials(database, u, k, n) # {}
            THEN o.ok /\ o.rows \subseteq NamedCredentials(database, u, k, n)
            ELSE ~o.ok /\ o.err = "NotFound"

CredentialSelectors(db) ==
    {<<u, c.name_cipherbytes>> : u \in Users, c \in db.credentials}

\* The result of a statement that found no row: an error, and the tables
\* as they were.
NoRowsResult(r, db) == ~r.ok /\ r.db = db

\* C30: an update or delete whose primary key matches no row returns an
\* error and changes no row, in each of the three tables; and update_file
\* for a path that has no FileData row returns Err without a filesystem
\* step: the tables and every blob are as they were.
C30_NoRowMatchedIsAnError ==
    [][/\ \A u \in Users : select_entry_account(database, u) = {} =>
            /\ NoRowsResult(connection_delete_account(database, u), database)
            /\ \A col \in PasswordColumns : NoRowsResult(connection_update_account(database, u, col, Unset), database)
       /\ \A s \in CredentialSelectors(database) :
            (~ \E c \in database.credentials : c.owner_username = s[1] /\ c.name_cipherbytes = s[2]) =>
                /\ NoRowsResult(connection_delete_credential(database, s[1], s[2]), database)
                /\ NoRowsResult(connection_update_credential(database, s[1], s[2], "notes_cipherbytes", Unset), database)
       /\ \A u \in Users, f \in Filenames :
            contents_nonce_of(database, u, f) = {} =>
                /\ NoRowsResult(connection_delete_file_data(database, get_file_path(u, f)), database)
                /\ NoRowsResult(connection_update_file_data(database, get_file_path(u, f), rng), database)
       /\ (last'.op = "update_file" /\ contents_nonce_of(database, last'.u, last'.a) = {}) =>
            /\ last'.res = "Err"
            /\ last'.at \in {"pre", "db"}
            /\ \A i \in 1..Len(last'.steps) : last'.steps[i] \notin {"fs", "fs_failed"}
            /\ database' = database
            /\ fs' = fs]_vars

\* update_file was refused at its database step for a file of an existing
\* directory that has no FileData row, and no blob was created for it.
C30_Witness ==
    /\ last.op = "update_file"
    /\ last.res = "Err"
    /\ last.at = "db"
    /\ contents_nonce_of(database, last.u, last.a) = {}
    /\ verify_writeable_dir(fs, last.u)
    /\ Resolve(get_file_path(last.u, last.a)).dir \in fs.dirs
    /\ BlobAt(fs, get_file_path(last.u, last.a)) = {}

\* The steps of the last call, as a set.
StepsOf(call) == {call.steps[i] : i \in 1..Len(call.steps)}

\* C31: a call whose transaction was dropped without commit, at whatever
\* step it returned, leaves all three tables as they were before the call,
\* so the inserts, updates and deletes made in it are gone; and the tables
\* differ from what they were only after a call whose last step was the
\* commit.
C31_DropDiscardsCommitPublishes ==
    [][/\ "rollback" \in StepsOf(last') =>
            /\ database'.accounts = database.accounts
            /\ database'.credentials = database.credentials
            /\ database'.files_data = database.files_data
       /\ database' # database =>
            /\ last'.steps # <<>>
            /\ last'.steps[Len(last'.steps)] = "commit"
            /\ "rollback" \notin StepsOf(last')]_vars

\* update_file wrote a fresh nonce to the row and the new blob to the
\* filesystem, the commit did not happen, and the row read afterwards
\* holds the nonce it held before, not the one drawn for the call.
C31_Witness ==
    /\ last.op = "update_file"
    /\ last.at = "commit"
    /\ "db" \in StepsOf(last)
    /\ "rollback" \in StepsOf(last)
    /\ contents_nonce_of(database, last.u, last.a) # {}
    /\ rng \notin contents_nonce_of(database, last.u, last.a)
    /\ \E b \in BlobAt(fs, get_file_path(last.u, last.a)) : b.bytes.n = rng

\* An insert the schema allows: the primary key is free and the owner has
\* an accounts row.
Insertable(db, T, e) ==
    /\ Matching(db, T, primary_key_arr(T, e)) = {}
    /\ OwnerExists(db, T, into_database(T, e))

\* C32: for every Account, Credential and FileData value E, insert_entry
\* of E followed by select_entry on E's primary key returns Some(E); and
\* for a primary key that no row of the table has (never inserted, or
\* deleted), select_entry returns Ok(None) and select_entry_err_none
\* returns Err.
C32_InsertThenSelectReturnsEntry ==
    [][/\ (last'.op = "insert_entry" /\ Insertable(database, last'.T, last'.entry)) =>
            /\ last'.res = "Ok"
            /\ select_entry(database', last'.T, primary_key_arr(last'.T, last'.entry)) = [res |-> "Ok", entry |-> {last'.entry}]
            /\ select_entry_err_none(database', last'.T, primary_key_arr(last'.T, last'.entry)) = [res |-> "Ok", entry |-> {last'.entry}]
       /\ \A T \in EntryTypes : \A e \in Entries(T) :
            Matching(database', T, primary_key_arr(T, e)) = {} =>
                /\ select_entry(database', T, primary_key_arr(T, e)) = [res |-> "Ok", entry |-> {}]
                /\ select_entry_err_none(database', T, primary_key_arr(T, e)).res = "Err"]_vars

\* The four encrypted fields of a credentials row, each as its cipherbytes
\* column and its nonce column.
EncryptedFields(c) ==
    {<<c.name_cipherbytes, c.name_nonce>>, <<c.username_cipherbytes, c.username_nonce>>, <<c.password_cipherbytes, c.password_nonce>>, <<c.notes_cipherbytes, c.notes_nonce>>}

\* Every field of the row is stored with the nonce it was sealed with and
\* opens under the key.
AllFieldsOpen(c, key) ==
    \A field \in EncryptedFields(c) :
        /\ field[2] # NotANonce
        /\ field[1].n = field[2]
        /\ try_decrypt_bytes(Encrypted_from_fields(field[1], field[2]), key).ok

\* C33: after update_credential returned Ok, for any pair of field tags
\* passed as cipherbytes_field and nonce_field, the credential it named,
\* whose four fields opened under the key before the call, still has each
\* of its four fields stored with the nonce it was sealed with, and each
\* still opens under the key.
C33_AnyFieldPairKeepsFieldsOpen ==
    [][(last'.op = "update_credential" /\ last'.res = "Ok") =>
        \A c \in NamedCredentials(database, last'.u, last'.key, last'.a) :
            AllFieldsOpen(c, last'.key) =>
                \A d \in database'.credentials :
                    (d.owner_username = c.owner_username /\ d.name_cipherbytes = c.name_cipherbytes) => AllFieldsOpen(d, last'.key)]_vars

\* The steps of a call that left no transaction open: none was opened, or
\* one was opened first and ended once, as the last step, by the commit or
\* by the rollback of the dropped Transaction.
TransactionClosed(steps) ==
    \/ steps = <<>>
    \/ /\ steps[1] = "begin"
       /\ steps[Len(steps)] \in {"commit", "rollback"}
       /\ Cardinality({i \in 1..Len(steps) : steps[i] = "begin"}) = 1
       /\ Cardinality({i \in 1..Len(steps) : steps[i] \in {"commit", "rollback"}}) = 1

\* C34: every Vault call, the first and each one after an earlier return,
\* opens at most one transaction and has ended it when it returns: with
\* Ok the commit was its last step, with Err the rollback was (or nothing
\* was opened), and after a rollback the tables are those from before the
\* call.
C34_NoTransactionLeftOpen ==
    [][/\ TransactionClosed(last'.steps)
       /\ last'.res = "Ok" => (last'.steps # <<>> /\ last'.steps[Len(last'.steps)] = "commit")
       /\ last'.res = "Err" => (last'.steps = <<>> \/ last'.steps[Len(last'.steps)] = "rollback")
       /\ (last'.steps # <<>> /\ last'.steps[Len(last'.steps)] = "rollback") => database' = database]_vars

\* A call opened its own transaction and committed it after an earlier
\* call had failed part-way through its filesystem step and rolled back:
\* the torn blob of the earlier call is on disk.
C34_Witness ==
    /\ calls = 2
    /\ last.res = "Ok"
    /\ last.steps[1] = "begin"
    /\ last.steps[Len(last.steps)] = "commit"
    /\ \E b \in fs.blobs : ~b.bytes.full

\* C35: load_account, load_unlocked_account, load_credential,
\* load_account_credentials, load_file and load_account_files_data,
\* returning Ok or Err, leave the metadata store and the filesystem exactly
\* as they were.
C35_ReadsChangeNothing ==
    [][last'.op \in ReadOperations => (database' = database /\ fs' = fs)]_vars

\* load_file failed on a file whose row and directory exist and whose blob
\* does not, and there is still no blob at the path.
C35_Witness ==
    /\ last.op = "load_file"
    /\ last.res = "Err"
    /\ verify_writeable_dir(fs, last.u)
    /\ \E f \in database.files_data : f.path = get_file_path(last.u, last.a)
    /\ BlobAt(fs, get_file_path(last.u, last.a)) = {}

\* C36: when edit_bytes has returned, with Ok or with the error of any of
\* its steps, the temp file it created is no longer in the temp directory.
C36_TempfileRemovedOnEveryReturn ==
    edit.pc \in {"ok", "err"} => ~edit.exists

====
